---- MODULE Spec2Model ----
(***************************************************************************)
(* State machine of the DataGrid component (src/src/datagrid/DataGrid.tsx) *)
(* and of the NewTabs component (src/src/newTab/NewTab.tsx).               *)
(*                                                                         *)
(* Row objects are shared by reference between the arrays the grid holds   *)
(* (this.state.allRows, the arrays captured by pending callbacks), and the *)
(* handlers mutate them in place; rows are therefore modelled as a heap    *)
(* `obj` of row objects and arrays as sequences of object identities.      *)
(* The pagination object of the state is created once and then mutated in  *)
(* place, so the single variable `pagination` is that object.              *)
(*                                                                         *)
(* A promise an injected callback returns resolves in a later task: every  *)
(* `.then` body is an action of its own, enabled while its request is in   *)
(* the corresponding pending sequence, in any order.                       *)
(***************************************************************************)
EXTENDS Integers, Sequences, FiniteSets

(* ------------------------------ bounds -------------------------------- *)

\* Largest total item count a caller supplies.
MaxItems == 6
\* Largest initial currentPage a caller supplies.
MaxInitPage == 3
\* Longest row array a caller or a callback supplies.
MaxRows == 2
\* Number of row objects that can be alive at once.
MaxObjs == 3
\* Most page-loader calls pending at once.
MaxPendingPage == 2
\* Most sort-function calls pending at once.
MaxPendingSort == 2
\* Most content-loader calls pending at once.
MaxPendingExpand == 1
\* Longest column array a caller supplies.
MaxCols == 2
\* Number of column objects, and of sort-spec objects, alive at once.
MaxColObjs == 4
\* Number of distinct contents a content loader returns.
MaxContent == 1

(* --------------------------- program constants ------------------------ *)

\* DEFAULT_COLUMN_WIDTH
DEFAULT_COLUMN_WIDTH == 100
\* pageSize when the caller gives none.
DefaultPageSize == 10

(* ------------------------------- helpers ------------------------------ *)

Range(s) == {s[i] : i \in 1..Len(s)}

RemoveAt(s, i) == [j \in 1..(Len(s) - 1) |-> IF j < i THEN s[j] ELSE s[j + 1]]

Min(a, b) == IF a < b THEN a ELSE b

(* --------------------- text of the page-index input ------------------- *)

DigitChars == <<"0", "1", "2", "3", "4", "5", "6", "7", "8", "9">>

\* The digits above 9 of radix 16, in lower and in upper case.
HexLetters == <<"a", "b", "c", "d", "e", "f">>
HexCapitals == <<"A", "B", "C", "D", "E", "F">>

\* Characters parseInt skips at the start of the text (StrWhiteSpaceChar):
\* space, tab, line feed, carriage return, form feed, vertical tab, no-break
\* space, zero-width no-break space and the ogham space mark.  The spaces from
\* U+2000 on and the line and paragraph separators are characters no text of
\* the model is written with.
WhiteSpace == {" ", "\t", "\n", "\r", "\f", "", " ", "﻿", " "}

\* The value of the character c as a digit of the radix, -1 when it is none.
DigitValue(c, radix) ==
    LET v == IF \E d \in 1..10 : DigitChars[d] = c
             THEN (CHOOSE d \in 1..10 : DigitChars[d] = c) - 1
             ELSE IF \E d \in 1..6 : HexLetters[d] = c \/ HexCapitals[d] = c
             THEN (CHOOSE d \in 1..6 : HexLetters[d] = c \/ HexCapitals[d] = c) + 9
             ELSE 0 - 1
    IN IF v < radix THEN v ELSE 0 - 1

IsDigit(c, radix) == DigitValue(c, radix) >= 0

\* Number.prototype.toString of a non-negative integer.
RECURSIVE NatToString(_)
NatToString(n) ==
    IF n < 10 THEN <<DigitChars[n + 1]>>
    ELSE NatToString(n \div 10) \o <<DigitChars[(n % 10) + 1]>>

\* Number.prototype.toString of an integer.
toString(n) == IF n < 0 THEN <<"-">> \o NatToString(0 - n) ELSE NatToString(n)

\* s without its leading white space.
RECURSIVE TrimStart(_)
TrimStart(s) ==
    IF s # <<>> /\ Head(s) \in WhiteSpace THEN TrimStart(Tail(s)) ELSE s

\* Length of the longest prefix of s made of digits of the radix.
RECURSIVE DigitPrefixLen(_, _)
DigitPrefixLen(s, radix) ==
    IF s = <<>> \/ ~IsDigit(Head(s), radix) THEN 0 ELSE 1 + DigitPrefixLen(Tail(s), radix)

\* Value of a sequence of digits of the radix.
RECURSIVE DigitsValue(_, _)
DigitsValue(s, radix) ==
    IF s = <<>> THEN 0
    ELSE DigitsValue(SubSeq(s, 1, Len(s) - 1), radix) * radix + DigitValue(s[Len(s)], radix)

\* parseInt(text) without radix argument: leading white space is skipped, a
\* sign + or - is read, a prefix 0x or 0X selects radix 16 (radix 10
\* otherwise), then comes the longest run of digits of the radix; NaN when
\* there is no digit there.
NaN == [isNaN |-> TRUE, val |-> 0]
Num(n) == [isNaN |-> FALSE, val |-> n]
ParseInt(s) ==
    LET trimmed == TrimStart(s)
        signed == trimmed # <<>> /\ Head(trimmed) \in {"+", "-"}
        neg == trimmed # <<>> /\ Head(trimmed) = "-"
        body == IF signed THEN Tail(trimmed) ELSE trimmed
        hex == Len(body) >= 2 /\ body[1] = "0" /\ body[2] \in {"x", "X"}
        radix == IF hex THEN 16 ELSE 10
        digits == IF hex THEN SubSeq(body, 3, Len(body)) ELSE body
        k == DigitPrefixLen(digits, radix)
    IN IF k = 0 THEN NaN
       ELSE Num((IF neg THEN -1 ELSE 1) * DigitsValue(SubSeq(digits, 1, k), radix))

\* JavaScript truthiness of a parseInt result or of null.
Truthy(v) == ~v.isNaN /\ v.val # 0

\* Texts a user types into the page-index input.
TypedTexts ==
    { <<"x">>, <<"0">>, <<"2">>, <<"-", "1">>, <<"3", "x">>, <<"1", "2">>,
      <<" ", "+", "2">>, <<"0", "x", "2">>, <<"\f", "2">> }

(* ------------------------ pagination arithmetic ----------------------- *)

\* Mutant of getTotalPages: a page too many when pageSize divides totalItems.
getTotalPagesFloorPlusOne(totalItems, pageSize) == (totalItems \div pageSize) + 1

getTotalPages(totalItems, pageSize) == (totalItems + pageSize - 1) \div pageSize

getFirstItemIndex(page, pageSize) == page * pageSize - (pageSize - 1)

\* Mutant of getLastItemIndex: the last page is not cut at totalItems.
getLastItemIndexUncut(pageSize, totalItems, firstItem) == firstItem + pageSize - 1

getLastItemIndex(pageSize, totalItems, firstItem) == Min(firstItem + pageSize - 1, totalItems)

(* ------------------------------ row objects --------------------------- *)

\* Identities of row objects.
Objs == 1..MaxObjs

\* A row as a caller or a callback supplies it (DataGridRow); rowID is "for
\* internal use" and is assigned by the grid.  hasExp: expandableRowData is
\* given, and with it, as the caller sets them: onRowExpand (hasLoader),
\* isExpanded, isLoading and expandableContent (content 0: none).
RowLit(sel, dis, hasExp, hasLoader, isExpanded, isLoading, content) ==
    [rowID |-> 0, isSelected |-> sel, disableRowSelection |-> dis,
     hasExp |-> hasExp, isExpanded |-> isExpanded, expLoading |-> isLoading,
     content |-> content, hasLoader |-> hasLoader]

\* Value of a heap cell no array refers to.
DefaultRow == RowLit(FALSE, FALSE, FALSE, FALSE, FALSE, FALSE, 0)

\* Rows without selection or expansion data.
PlainRows == {RowLit(FALSE, FALSE, FALSE, FALSE, FALSE, FALSE, 0)}

\* Rows that differ in their selection flags; each is expandable, collapsed,
\* with a content loader.
SelRows ==
    {RowLit(sel, dis, TRUE, TRUE, FALSE, FALSE, 0) : sel \in BOOLEAN, dis \in BOOLEAN}

\* Expandable rows: collapsed, with and without a content loader; with a
\* loader, expanded and with isLoading set by the caller; with a loader,
\* expanded and with the content the caller gives it.
ExpRows ==
    {RowLit(FALSE, FALSE, TRUE, ld, FALSE, FALSE, 0) : ld \in BOOLEAN}
        \cup {RowLit(FALSE, FALSE, TRUE, TRUE, TRUE, TRUE, 0),
              RowLit(FALSE, FALSE, TRUE, TRUE, TRUE, FALSE, 1)}

\* Arrays of at most n rows drawn from R.
RowArrays(R, n) == UNION {[1..k -> R] : k \in 0..n}

\* The n smallest identities outside `used`, as a sequence.
RECURSIVE FreshIds(_, _)
FreshIds(n, used) ==
    IF n = 0 THEN <<>>
    ELSE LET o == CHOOSE x \in Objs \ used : \A y \in Objs \ used : x <= y
         IN <<o>> \o FreshIds(n - 1, used \cup {o})

\* The heap with the rows `lits` stored at the identities `ids`.
Store(h, ids, lits) ==
    [o \in Objs |-> IF \E i \in 1..Len(ids) : ids[i] = o
                    THEN lits[CHOOSE i \in 1..Len(ids) : ids[i] = o]
                    ELSE h[o]]

\* The heap with every cell outside `live` reset.
Collect(h, live) == [o \in Objs |-> IF o \in live THEN h[o] ELSE DefaultRow]

\* updateRowIDs: row.rowID = index, in place, for every row of the array.
updateRowIDs(h, rows) ==
    [o \in Objs |->
        IF \E i \in 1..Len(rows) : rows[i] = o
        THEN [h[o] EXCEPT !.rowID =
                 (CHOOSE i \in 1..Len(rows) :
                      rows[i] = o /\ \A j \in 1..Len(rows) : rows[j] = o => j <= i) - 1]
        ELSE h[o]]

\* getSelectionEnabledRows: the rows whose disableRowSelection is falsy.
getSelectionEnabledRows(h, rows) ==
    SelectSeq(rows, LAMBDA o : ~h[o].disableRowSelection)

\* allTrueOnKey(rows, "isSelected") of ../utils.
allTrueOnKey(h, rows) == \A i \in 1..Len(rows) : h[rows[i]].isSelected

\* isAllRowsSelected
isAllRowsSelected(h, allRowsArg) ==
    LET rows == getSelectionEnabledRows(h, allRowsArg)
    IN IF Len(rows) # 0 THEN allTrueOnKey(h, rows) ELSE FALSE

(* ----------------------------- column objects ------------------------- *)

\* Identities of column objects and of the sort-spec objects they refer to.
ColObjs == 1..MaxColObjs
SortObjs == 1..MaxColObjs

\* SortOrder
DESC == "descending"
ASC == "ascending "
NONE == "none"
SortOrder == {DESC, ASC, NONE}

\* A column as a caller supplies it (DataGridColumn).  isVisible is "true",
\* "false" or "undefined"; width 0 stands for no width; hasSort: a sort spec
\* is given, with defaultSortOrder `order` and isSorted `sorted`.
ColLit(name, vis, width, hasSort, order, sorted) ==
    [columnName |-> name, isVisible |-> vis, width |-> width,
     hasSort |-> hasSort, defaultSortOrder |-> order, isSorted |-> sorted]

\* Values of the heap cells no array refers to.
DefaultCol == [columnName |-> "", columnID |-> 0, isVisible |-> "undefined",
               width |-> 0, sort |-> 0]
DefaultSort == [defaultSortOrder |-> NONE, isSorted |-> FALSE]

\* setColumnVisibility on one column.
setColumnVisibility(vis) == IF vis # "undefined" THEN vis ELSE "true"

\* Mutant of setInitalStateWidth: the width is left as the column has it.
setInitalStateWidthKept(width) == width

\* setInitalState: col.width = col.width ? col.width : DEFAULT_COLUMN_WIDTH
\* (width 0: none given).
setInitalStateWidth(width) == IF width # 0 THEN width ELSE DEFAULT_COLUMN_WIDTH

\* setInitalState, columns part: visibility default, ids by position, and
\* the default width for a column without one.  Column i and its sort spec
\* are the objects of identity i.
setInitalStateColumn(lit, i) ==
    [columnName |-> lit.columnName, columnID |-> i - 1,
     isVisible |-> setColumnVisibility(lit.isVisible),
     width |-> setInitalStateWidth(lit.width),
     sort |-> IF lit.hasSort THEN i ELSE 0]

(* -------------------------------- state ------------------------------- *)

VARIABLES
    props,           \* the props the handlers read, fixed after construction
    obj,             \* heap of row objects
    allRows,         \* this.state.allRows
    selectAll,       \* this.state.selectAll
    isLoading,       \* this.state.isLoading
    pagination,      \* this.state.pagination (one object, mutated in place)
    pageIndexValue,  \* pageIndexRef.current.value
    screen,          \* what the last render showed of the pagination and of the rows
    colObj,          \* heap of column objects
    sortObj,         \* heap of sort-spec objects (column.sort)
    allColumns,      \* this.state.allColumns
    pendingPage,     \* getPageData calls not yet resolved, oldest first
    pendingSort,     \* sortFunction calls not yet resolved, oldest first
    pendingExpand,   \* onRowExpand calls not yet resolved, oldest first
    tabsProp,        \* NewTabs: props.tabOrientation and props.overflowTabsFrom
    tabs,            \* NewTabs: props.tabs (its objects are mutated in place)
    isOverflowTabSelected, \* NewTabs: this.state.isOverflowTabSelected
    selectedTabId,   \* NewTabs: this.state.selectedTabId
    ev               \* the handler that ran last, with its arguments

vars == <<props, obj, allRows, selectAll, isLoading, pagination, pageIndexValue, screen,
          colObj, sortObj, allColumns, pendingPage, pendingSort, pendingExpand,
          tabsProp, tabs, isOverflowTabSelected, selectedTabId, ev>>

gridVars == <<props, obj, allRows, selectAll, isLoading, pagination, pageIndexValue, screen,
              colObj, sortObj, allColumns, pendingPage, pendingSort, pendingExpand>>
tabVars == <<tabsProp, tabs, isOverflowTabSelected, selectedTabId>>

\* The page holds a DataGrid and no NewTabs component.
NoNewTabs ==
    /\ tabsProp = <<>>
    /\ tabs = <<>>
    /\ isOverflowTabSelected = FALSE
    /\ selectedTabId = ""

rowVars == <<obj, allRows, selectAll>>
pageVars == <<pagination, pageIndexValue, pendingPage, screen>>
colVars == <<colObj, sortObj, allColumns>>

\* Row objects the closures of the unresolved callbacks ps (sorts) and pe
\* (content loads) refer to.
CapturedIn(ps, pe) ==
    UNION ({Range(ps[i].rows) : i \in 1..Len(ps)} \cup {Range(pe[i].rows) : i \in 1..Len(pe)})

Captured == CapturedIn(pendingSort, pendingExpand)

\* Page sizes a caller offers (pagination.pageSizes) and starts with.
PageSizes == {5, DefaultPageSize}

\* Total item counts a caller supplies: the small ones, and the 25 items of
\* the specification's pagination example.
ItemCounts == (0..MaxItems) \cup {25}

\* The column array of the specifications that do not look at columns.
OneSortColumn == <<ColLit("A", "undefined", 0, TRUE, NONE, FALSE)>>

\* The row array of the specifications that do not look at rows.
OneRow == {[i \in 1..1 |-> RowLit(FALSE, FALSE, FALSE, FALSE, FALSE, FALSE, 0)]}

(* ----------------------------- construction --------------------------- *)

\* setInitalState, rows part: ids by position, and isSelected forced to a
\* boolean that is false for a selection-disabled row.
setInitalStateRow(lit, index) ==
    [lit EXCEPT !.rowID = index,
                !.isSelected = IF ~lit.disableRowSelection THEN lit.isSelected ELSE FALSE]

\* setInitalStateForPagination on the initial pagination object of the state.
setInitalStateForPagination(currentPage, pageSize, totalItems) ==
    LET firstItem == getFirstItemIndex(currentPage, pageSize)
        lastItem == getLastItemIndex(pageSize, totalItems, firstItem)
    IN [currentPage |-> currentPage, pageSize |-> pageSize, totalItems |-> totalItems,
        firstItem |-> firstItem, lastItem |-> lastItem,
        totalPages |-> getTotalPages(totalItems, pageSize)]

\* this.state.pagination when props.pagination is undefined.
NoPagination ==
    [currentPage |-> 0, pageSize |-> 0, totalItems |-> 0,
     firstItem |-> 0, lastItem |-> 0, totalPages |-> 0]

\* render and buildDataGridFooter: the footer shows the pagination (and not
\* the footer content) when the footer is shown and totalItems >= pageSize,
\* neither being 0.
renderPaginationFooter(p, pg) ==
    /\ p.footer # "none"
    /\ p.hasPagination
    /\ pg.totalItems # 0 /\ pg.pageSize # 0 /\ pg.totalItems >= pg.pageSize

\* GridRowType.EXPANDABLE
EXPANDABLE == "expandable"

\* Nothing of the grid is on the screen.
NoScreen == [pagination |-> FALSE, currentPage |-> 0, totalPages |-> 0, rows |-> <<>>]

\* buildDataGridRow on the rows `rows` of the heap h: for each row the row
\* object its checkbox or radio button reads row.rowID from when it is used,
\* the rowID its expand button hands to toggleExpand (the value buildExpandableCell
\* took from the row at the render), whether its expand button is there
\* (rowType is expandable and the row is not loading, a Spinner taking the
\* place of the button while it is; no row of the model hides its expand
\* icon), and whether its checkbox or radio button is there (a selectionType
\* is given and the row is not selection-disabled).
RowsRendered(p, h, rows) ==
    [i \in 1..Len(rows) |->
        [row |-> rows[i],
         rowID |-> h[rows[i]].rowID,
         expand |-> p.rowType = EXPANDABLE /\ ~h[rows[i]].expLoading,
         select |-> p.selectionType \in {"multi", "single"}
                    /\ ~h[rows[i]].disableRowSelection]]

\* What a render that reads the pagination pg and the rows `rows` of the heap
\* h puts on the screen: the pagination controls or not, the currentPage and
\* totalPages that buildPageButtons and buildCompactPageButtons compute
\* `disabled` from, and the controls of the rows.
Screen(p, pg, h, rows) ==
    IF renderPaginationFooter(p, pg)
    THEN [pagination |-> TRUE, currentPage |-> pg.currentPage, totalPages |-> pg.totalPages,
          rows |-> RowsRendered(p, h, rows)]
    ELSE [NoScreen EXCEPT !.rows = RowsRendered(p, h, rows)]

\* buildDataGridPagination: the page-size select and the page-index input
\* are on the screen sc; both belong to the footer that is not compact (the
\* caller offers pageSizes).
SelectRendered(p, sc) == sc.pagination /\ p.footer = "full"
InputRendered(p, sc) == sc.pagination /\ p.footer = "full"

\* buildPageButtons / buildCompactPageButtons: the buttons that are on the
\* screen sc and not disabled.  First and last exist in the footer that is
\* not compact only; first and previous are disabled on page 1, next and
\* last on the last page.
FirstEnabled(p, sc) == sc.pagination /\ p.footer = "full" /\ sc.currentPage # 1
PreviousEnabled(p, sc) == sc.pagination /\ sc.currentPage # 1
NextEnabled(p, sc) == sc.pagination /\ sc.currentPage # sc.totalPages
LastEnabled(p, sc) == sc.pagination /\ p.footer = "full" /\ sc.currentPage # sc.totalPages

\* The value of the page-index input after a render that replaces the
\* screen scOld by scNew: the input keeps the value it has while it stays
\* mounted, and mounts with defaultValue = currentPage.
Render(p, scOld, scNew, value) ==
    IF InputRendered(p, scNew)
    THEN IF InputRendered(p, scOld) THEN value ELSE toString(scNew.currentPage)
    ELSE <<>>

\* The state the constructor leaves.  The constructor's setState calls are
\* no-ops (the component is not mounted yet): what takes effect is the state
\* initializer and the in-place mutation of the rows and of the pagination
\* object, so selectAll keeps its initial false.
Construct(p, cols, lits, currentPage, pageSize, totalItems) ==
    LET ids == FreshIds(Len(lits), {})
        h == Store([o \in Objs |-> DefaultRow], ids,
                   [i \in 1..Len(lits) |-> setInitalStateRow(lits[i], i - 1)])
    IN /\ props = p
       /\ colObj = [c \in ColObjs |-> IF c <= Len(cols)
                                       THEN setInitalStateColumn(cols[c], c)
                                       ELSE DefaultCol]
       /\ sortObj = [c \in SortObjs |->
                        IF c <= Len(cols) /\ cols[c].hasSort
                        THEN [defaultSortOrder |-> cols[c].defaultSortOrder,
                              isSorted |-> cols[c].isSorted]
                        ELSE DefaultSort]
       /\ allColumns = [i \in 1..Len(cols) |-> i]
       /\ pendingSort = <<>>
       /\ pendingExpand = <<>>
       /\ obj = h
       /\ allRows = ids
       /\ selectAll = FALSE
       /\ isLoading = p.isLoading
       /\ pagination = IF p.hasPagination
                       THEN setInitalStateForPagination(currentPage, pageSize, totalItems)
                       ELSE NoPagination
       /\ screen = Screen(p, IF p.hasPagination
                              THEN setInitalStateForPagination(currentPage, pageSize, totalItems)
                              ELSE NoPagination,
                           h, ids)
       /\ pageIndexValue =
              IF p.hasPagination
                 /\ InputRendered(p, Screen(p, setInitalStateForPagination(currentPage, pageSize,
                                                                          totalItems), h, ids))
              THEN toString(currentPage) ELSE <<>>
       /\ pendingPage = <<>>
       /\ ev = [op |-> "constructor", arg |-> <<[i \in 1..Len(cols) |-> cols[i].width]>>]

\* props: isLoading; pagination given; pagination.getPageData given; the
\* footer: "none" (no footer.showFooter), "compact" (shown, with
\* pagination.compactFooter) or "full" (shown, not compact); selectionType;
\* no footer.hideShowColumns.updateDataGridColumns; no rowType.
Props(ld, pg, gpd, footer, st) ==
    [isLoading |-> ld, hasPagination |-> pg, hasGetPageData |-> gpd,
     footer |-> footer, selectionType |-> st, hasUpdateDataGridColumns |-> FALSE,
     rowType |-> "undefined"]

\* The footers a caller chooses from.
Footers == {"none", "compact", "full"}

(* ------------------------------ pagination ---------------------------- *)

\* The rows `lits` as a new array of fresh row objects, none of them in
\* `used`: <<ids, heap>>.
NewArrayAvoiding(lits, used) ==
    LET ids == FreshIds(Len(lits), used)
    IN <<ids, Store(obj, ids, lits)>>

NewArray(lits) == NewArrayAvoiding(lits, Captured)

\* The model has row objects left for an array of n new rows.
CanAllocate(n, used) == Cardinality(Objs \ used) >= n

\* showLoader / hideLoader
showLoader == isLoading' = TRUE
hideLoader == isLoading' = FALSE

\* The end of a handler that ran on the screen sc and left `value` in the
\* page-index input, the pagination pg and the rows `rows` of the heap h in
\* the state.  DataGrid is
\* a PureComponent: it renders again when a setState of the handler changed a
\* field of the state (`changed`); writing into the pagination object or into
\* a row in place changes none.
renderOn(sc, changed, pg, value, h, rows) ==
    IF changed
    THEN /\ screen' = Screen(props, pg, h, rows)
         /\ pageIndexValue' = Render(props, sc, Screen(props, pg, h, rows), value)
    ELSE /\ screen' = sc
         /\ pageIndexValue' = value

\* renderOn for a handler that runs on the screen of the last render.
render(changed, pg, value, h, rows) == renderOn(screen, changed, pg, value, h, rows)

\* getPage(pageIndex, pageSize), up to the call of getPageData.
getPage(pageIndex, pageSize) ==
    IF props.hasPagination
    THEN LET totalItems == pagination.totalItems
             totalPages == IF pagination.pageSize # pageSize
                           THEN getTotalPages(totalItems, pageSize)
                           ELSE pagination.totalPages
             clampedHigh == IF pageIndex > totalPages /\ totalPages # 0
                            THEN totalPages ELSE pageIndex
             page == IF clampedHigh < 1 THEN 1 ELSE clampedHigh
             firstItem == getFirstItemIndex(page, pageSize)
             lastItem == getLastItemIndex(pageSize, totalItems, firstItem)
             written == IF InputRendered(props, screen)
                        THEN toString(page) ELSE pageIndexValue
         IN /\ showLoader
            /\ IF props.hasGetPageData
               THEN /\ pagination' = [pagination EXCEPT
                                         !.pageSize = pageSize,
                                         !.currentPage = page,
                                         !.firstItem = firstItem,
                                         !.lastItem = lastItem,
                                         !.totalPages = getTotalPages(totalItems, pageSize)]
                    /\ pendingPage' = Append(pendingPage, [page |-> page, size |-> pageSize])
               ELSE UNCHANGED <<pagination, pendingPage>>
            /\ render(~isLoading, pagination', written, obj, allRows)
    ELSE UNCHANGED <<isLoading, pageIndexValue, pagination, pendingPage, screen>>

\* showLoader() called by the owner of the component.
ownerShowLoader ==
    /\ showLoader
    /\ render(~isLoading, pagination, pageIndexValue, obj, allRows)
    /\ UNCHANGED tabVars
    /\ ev' = [op |-> "showLoader", arg |-> <<>>]
    /\ UNCHANGED <<props, rowVars, pagination, pendingPage, colVars, pendingSort, pendingExpand>>

\* hideLoader() called by the owner of the component.
ownerHideLoader ==
    /\ hideLoader
    /\ render(isLoading, pagination, pageIndexValue, obj, allRows)
    /\ UNCHANGED tabVars
    /\ ev' = [op |-> "hideLoader", arg |-> <<>>]
    /\ UNCHANGED <<props, rowVars, pagination, pendingPage, colVars, pendingSort, pendingExpand>>

\* A further getPageData call fits the model's bound.
CanRequestPage == ~props.hasGetPageData \/ Len(pendingPage) < MaxPendingPage

handleSelectPageSize(size) ==
    /\ SelectRendered(props, screen) /\ CanRequestPage
    /\ getPage(pagination.currentPage, size)
    /\ UNCHANGED tabVars
    /\ ev' = [op |-> "handleSelectPageSize", arg |-> <<pagination.currentPage, size>>]
    /\ UNCHANGED <<props, rowVars, colVars, pendingSort, pendingExpand>>

gotoFirstPage ==
    /\ FirstEnabled(props, screen) /\ CanRequestPage
    /\ getPage(1, pagination.pageSize)
    /\ UNCHANGED tabVars
    /\ ev' = [op |-> "gotoFirstPage", arg |-> <<1, pagination.pageSize>>]
    /\ UNCHANGED <<props, rowVars, colVars, pendingSort, pendingExpand>>

gotoLastPage ==
    /\ LastEnabled(props, screen) /\ CanRequestPage
    /\ getPage(pagination.totalPages, pagination.pageSize)
    /\ UNCHANGED tabVars
    /\ ev' = [op |-> "gotoLastPage", arg |-> <<pagination.totalPages, pagination.pageSize>>]
    /\ UNCHANGED <<props, rowVars, colVars, pendingSort, pendingExpand>>

\* Mutant of nextPage: the page after the current one, without the cut at
\* totalPages.
nextPageUncut(currentPage, totalPages) == currentPage + 1

\* gotoNextPage: the page it asks getPage for.
nextPage(currentPage, totalPages) ==
    IF currentPage + 1 > totalPages THEN totalPages ELSE currentPage + 1

gotoNextPage ==
    /\ NextEnabled(props, screen) /\ CanRequestPage
    /\ LET page == nextPage(pagination.currentPage, pagination.totalPages)
       IN /\ getPage(page, pagination.pageSize)
          /\ UNCHANGED tabVars
          /\ ev' = [op |-> "gotoNextPage", arg |-> <<page, pagination.pageSize>>]
    /\ UNCHANGED <<props, rowVars, colVars, pendingSort, pendingExpand>>

gotoPreviousPage ==
    /\ PreviousEnabled(props, screen) /\ CanRequestPage
    /\ LET previousPage == IF pagination.currentPage - 1 < 1
                           THEN 1 ELSE pagination.currentPage - 1
       IN /\ getPage(previousPage, pagination.pageSize)
          /\ UNCHANGED tabVars
          /\ ev' = [op |-> "gotoPreviousPage", arg |-> <<previousPage, pagination.pageSize>>]
    /\ UNCHANGED <<props, rowVars, colVars, pendingSort, pendingExpand>>

\* The user leaves `text` in the page-index input and blurs it or presses
\* Enter or Tab: handlePageChange.
handlePageChange(text) ==
    /\ InputRendered(props, screen) /\ CanRequestPage
    /\ LET pageIndex == ParseInt(text)
       IN IF Truthy(pageIndex)
          THEN IF pageIndex.isNaN
               THEN /\ pageIndexValue' = toString(pagination.currentPage)
                    /\ UNCHANGED <<isLoading, pagination, pendingPage, screen>>
               ELSE getPage(pageIndex.val, pagination.pageSize)
          ELSE /\ pageIndexValue' = text
               /\ UNCHANGED <<isLoading, pagination, pendingPage, screen>>
    /\ UNCHANGED tabVars
    /\ ev' = [op |-> "handlePageChange", arg |-> text]
    /\ UNCHANGED <<props, rowVars, colVars, pendingSort, pendingExpand>>

\* The .then of getPage: the i-th pending getPageData call resolves with the
\* rows `lits`.  ev holds the page and size asked for and the isSelected the
\* rows came with.
getPageThen(i, lits) ==
    /\ i \in 1..Len(pendingPage)
    /\ CanAllocate(Len(lits), Captured)
    /\ LET new == NewArray(lits)
           rows == new[1]
           h == updateRowIDs(new[2], rows)
       IN /\ obj' = Collect(h, Captured \cup Range(rows))
          /\ allRows' = rows
          /\ selectAll' = isAllRowsSelected(h, rows)
    /\ hideLoader
    /\ pendingPage' = RemoveAt(pendingPage, i)
    /\ render(TRUE, pagination, pageIndexValue, obj', allRows')
    /\ UNCHANGED tabVars
    /\ ev' = [op |-> "getPageThen",
              arg |-> <<pendingPage[i].page, pendingPage[i].size,
                        [j \in 1..Len(lits) |-> lits[j].isSelected]>>]
    /\ UNCHANGED <<props, pagination, colVars, pendingSort, pendingExpand>>

\* updateRows: "Set current page to 1 if it is greater than total pages".
updateRowsCurrentPage(currentPage, totalPages) ==
    IF currentPage > totalPages THEN 1 ELSE currentPage

\* An array a caller hands to the grid: new row objects, as the literals
\* `lits` declare them, or row objects the grid holds already, `ids` (the
\* caller filters or reorders the rows it gave before, or lists one twice).
NewRows(lits) == [held |-> FALSE, lits |-> lits, ids |-> <<>>]
HeldRows(ids) == [held |-> TRUE, lits |-> <<>>, ids |-> ids]

\* The caller can supply the array rowsIn: the model has row objects left
\* for its new rows, or the grid's arrays hold the row objects it lists.
CanSupply(rowsIn) ==
    IF rowsIn.held
    THEN Range(rowsIn.ids) \subseteq (Range(allRows) \cup Captured)
    ELSE CanAllocate(Len(rowsIn.lits), Captured)

\* The array rowsIn in the heap: <<ids, heap>>.
Supplied(rowsIn) == IF rowsIn.held THEN <<rowsIn.ids, obj>> ELSE NewArray(rowsIn.lits)

\* updateRows(rows, totalItems) on the screen sc, whose page-index input
\* holds `value`; rows is the array `updated` of the heap h0; hasTotal:
\* totalItems is not undefined.
updateRowsOn(sc, value, updated, h0, hasTotal, totalItems) ==
    /\ LET updatedRows == updated
           h == updateRowIDs(h0, updatedRows)
       IN /\ obj' = Collect(h, Captured \cup Range(updatedRows))
          /\ allRows' = updatedRows
          /\ selectAll' = isAllRowsSelected(h, updatedRows)
    /\ IF props.hasPagination /\ hasTotal
       THEN LET pageSize == pagination.pageSize
                totalPages == getTotalPages(totalItems, pageSize)
                currentPage == updateRowsCurrentPage(pagination.currentPage, totalPages)
                firstItem == getFirstItemIndex(currentPage, pageSize)
                lastItem == getLastItemIndex(pageSize, totalItems, firstItem)
            IN /\ pagination' = [pagination EXCEPT
                                    !.totalPages = totalPages,
                                    !.firstItem = firstItem,
                                    !.lastItem = lastItem,
                                    !.currentPage = currentPage,
                                    !.totalItems = totalItems]
               /\ renderOn(sc, TRUE, pagination',
                           IF InputRendered(props, sc)
                           THEN toString(currentPage) ELSE value,
                           obj', allRows')
       ELSE /\ UNCHANGED pagination
            /\ renderOn(sc, TRUE, pagination, value, obj', allRows')

\* updateRows(rows, totalItems), called by the owner of the component.  ev
\* holds hasTotal, totalItems and the current page the call found.
updateRows(rowsIn, hasTotal, totalItems) ==
    /\ CanSupply(rowsIn)
    /\ \E new \in {Supplied(rowsIn)} :
           updateRowsOn(screen, pageIndexValue, new[1], new[2], hasTotal, totalItems)
    /\ UNCHANGED tabVars
    /\ ev' = [op |-> "updateRows",
              arg |-> <<hasTotal, totalItems, pagination.currentPage>>]
    /\ UNCHANGED <<props, isLoading, pendingPage, colVars, pendingSort, pendingExpand>>

(* ------------------------------- selection --------------------------- *)

\* Mutant of filterSelected: the selected rows that are selection-eligible.
filterSelectedEligible(h, rows) ==
    SelectSeq(rows, LAMBDA o : h[o].isSelected /\ ~h[o].disableRowSelection)

\* allRows.filter(row => row.isSelected === true)
filterSelected(h, rows) == SelectSeq(rows, LAMBDA o : h[o].isSelected)

\* getSelectedRows(): a read; ev holds the array returned.
getSelectedRows ==
    /\ UNCHANGED tabVars
    /\ ev' = [op |-> "getSelectedRows", arg |-> <<filterSelected(obj, allRows)>>]
    /\ UNCHANGED <<props, rowVars, isLoading, pageVars, colVars, pendingSort, pendingExpand>>

\* Mutant of selectAllRow: selection-disabled rows are set as well.
selectAllRowAlsoDisabled(row, flag) == [row EXCEPT !.isSelected = ~flag]

\* handleSelectAll, the body of allRows.forEach on one row; flag is the
\* selectAll of the state.
selectAllRow(row, flag) ==
    IF ~row.disableRowSelection THEN [row EXCEPT !.isSelected = ~flag] ELSE row

\* handleSelectAll: every selection-enabled row takes !selectAll, and so does
\* the flag; the select-all checkbox exists in multi selection only.  ev
\* holds the arguments of onSelectAll.
handleSelectAll ==
    /\ props.selectionType = "multi"
    /\ obj' = [o \in Objs |->
                  IF o \in Range(allRows) THEN selectAllRow(obj[o], selectAll) ELSE obj[o]]
    /\ selectAll' = ~selectAll
    /\ render(TRUE, pagination, pageIndexValue, obj', allRows)
    /\ UNCHANGED tabVars
    /\ ev' = [op |-> "handleSelectAll", arg |-> <<~selectAll, allRows>>]
    /\ UNCHANGED <<props, allRows, isLoading, pagination, pendingPage, colVars, pendingSort,
                   pendingExpand>>

\* handleSelectSingle, the body of allRows.forEach on one row.
selectSingleRow(row, rowID, selectionType) ==
    IF row.rowID = rowID THEN [row EXCEPT !.isSelected = ~row.isSelected]
    ELSE IF selectionType = "single" THEN [row EXCEPT !.isSelected = FALSE]
    ELSE row

\* handleSelectSingle, allRows.forEach from position i on: a row object the
\* array lists twice is visited twice.
RECURSIVE selectSingleFrom(_, _, _, _, _)
selectSingleFrom(h, rows, i, rowID, selectionType) ==
    IF i > Len(rows) THEN h
    ELSE selectSingleFrom(
             [h EXCEPT ![rows[i]] = selectSingleRow(h[rows[i]], rowID, selectionType)],
             rows, i + 1, rowID, selectionType)

\* handleSelectSingle(evt, row.rowID), from the checkbox or radio button of
\* the k-th row on the screen, which exists for a selection-enabled row only;
\* onChange reads rowID from the row object of the last render when it
\* runs.  ev holds rowID and the argument of onRowSelect: the last row that
\* matched rowID (0: none did).
handleSelectSingle(k) ==
    /\ k \in 1..Len(screen.rows)
    /\ screen.rows[k].select
    /\ LET rowID == obj[screen.rows[k].row].rowID
           h == selectSingleFrom(obj, allRows, 1, rowID, props.selectionType)
           matching == {i \in 1..Len(allRows) : obj[allRows[i]].rowID = rowID}
           last == CHOOSE i \in matching : \A j \in matching : j <= i
       IN /\ obj' = h
          /\ selectAll' = isAllRowsSelected(h, allRows)
          /\ UNCHANGED tabVars
          /\ ev' = [op |-> "handleSelectSingle",
                    arg |-> <<rowID, IF matching = {} THEN 0 ELSE allRows[last]>>]
    /\ render(TRUE, pagination, pageIndexValue, obj', allRows)
    /\ UNCHANGED <<props, allRows, isLoading, pagination, pendingPage, colVars, pendingSort,
                   pendingExpand>>

(* ------------------------------- expansion ---------------------------- *)

\* toggleExpand(rowID), from the expand button of the k-th row on the
\* screen: the row addressed is allRows[rowID], rowID being the id the k-th
\* row had at the last render.
toggleExpand(k) ==
    /\ k \in 1..Len(screen.rows)
    /\ screen.rows[k].expand
    /\ LET rowID == screen.rows[k].rowID
       IN /\ IF rowID + 1 \in 1..Len(allRows)
             THEN LET o == allRows[rowID + 1]
                      isExpanded == ~obj[o].isExpanded
                  IN /\ IF obj[o].hasExp
                        THEN IF obj[o].hasLoader /\ isExpanded
                             THEN /\ Len(pendingExpand) < MaxPendingExpand
                                  /\ obj' = [obj EXCEPT ![o].isExpanded = isExpanded,
                                                        ![o].expLoading = TRUE]
                                  /\ pendingExpand' =
                                         Append(pendingExpand,
                                                [rows |-> allRows, rowID |-> rowID])
                             ELSE /\ obj' = [obj EXCEPT ![o].isExpanded = isExpanded]
                                  /\ UNCHANGED pendingExpand
                        ELSE UNCHANGED <<obj, pendingExpand>>
                     /\ render(obj[o].hasExp, pagination, pageIndexValue, obj', allRows)
             ELSE \* allRows[rowID] is undefined: the handler throws.
                  /\ UNCHANGED <<obj, pendingExpand>>
                  /\ render(FALSE, pagination, pageIndexValue, obj, allRows)
          /\ UNCHANGED tabVars
          /\ ev' = [op |-> "toggleExpand", arg |-> <<rowID>>]
    /\ UNCHANGED <<props, allRows, selectAll, isLoading, pagination, pendingPage, colVars,
                   pendingSort>>

\* What the .then of toggleExpand writes on the row's expandableRowData.
expandResolved(row, content) ==
    [row EXCEPT !.content = content, !.expLoading = FALSE]

\* The .then of toggleExpand: the i-th pending onRowExpand call resolves
\* with `content`; the array put into the state is the one toggleExpand read.
toggleExpandThen(i, content) ==
    /\ i \in 1..Len(pendingExpand)
    /\ LET pe == pendingExpand[i]
           o == pe.rows[pe.rowID + 1]
           h == [obj EXCEPT ![o] = expandResolved(obj[o], content)]
           rest == RemoveAt(pendingExpand, i)
       IN /\ obj' = Collect(h, CapturedIn(pendingSort, rest) \cup Range(pe.rows))
          /\ allRows' = pe.rows
          /\ pendingExpand' = rest
          /\ UNCHANGED tabVars
          /\ ev' = [op |-> "toggleExpandThen", arg |-> <<pe.rowID, content>>]
    /\ render(TRUE, pagination, pageIndexValue, obj', allRows')
    /\ UNCHANGED <<props, selectAll, isLoading, pagination, pendingPage, colVars, pendingSort>>

(* -------------------------------- sorting ----------------------------- *)

\* Column objects the closures of the unresolved sort callbacks ps refer to.
CapturedColsIn(ps) == UNION {Range(ps[i].cols) : i \in 1..Len(ps)}

\* The sort-spec objects the columns `live` of the heap cH refer to.
SortsOf(cH, live) == {cH[c].sort : c \in live} \ {0}

\* The column heaps with every cell outside `live` reset.
CollectCols(cH, live) == [c \in ColObjs |-> IF c \in live THEN cH[c] ELSE DefaultCol]
CollectSorts(sH, live) == [x \in SortObjs |-> IF x \in live THEN sH[x] ELSE DefaultSort]

\* Mutant of nextSortOrder: a descending column goes back to no order.
nextSortOrderBackToNone(defaultSortOrder) ==
    IF defaultSortOrder = NONE THEN ASC
    ELSE IF defaultSortOrder = ASC THEN DESC ELSE NONE

\* Mutant of nextSortOrder: ascending whatever the column's order is.
nextSortOrderAlwaysAsc(defaultSortOrder) == ASC

\* The order handleSort asks the sort function for.
nextSortOrder(defaultSortOrder) ==
    IF defaultSortOrder = NONE \/ defaultSortOrder = DESC THEN ASC ELSE DESC

\* handleSort(evt, columnName, columnID, sortFunction, defaultSortOrder), from
\* the header button of the k-th column, which exists for a visible column
\* with a sort spec.  The arguments are those of the last render, which are
\* those of the state: a render follows every change of a column's name, id,
\* visibility, sort spec or order.
handleSort(k) ==
    /\ k \in 1..Len(allColumns)
    /\ colObj[allColumns[k]].isVisible = "true"
    /\ colObj[allColumns[k]].sort # 0
    /\ Len(pendingSort) < MaxPendingSort
    /\ LET col == colObj[allColumns[k]]
           sorts == {colObj[allColumns[j]].sort : j \in 1..Len(allColumns)}
       IN /\ showLoader
          /\ sortObj' = [x \in SortObjs |->
                            IF x \in sorts THEN [sortObj[x] EXCEPT !.isSorted = FALSE]
                            ELSE sortObj[x]]
          /\ pendingSort' =
                 Append(pendingSort,
                        [rows |-> allRows, cols |-> allColumns, columnID |-> col.columnID,
                         columnName |-> col.columnName,
                         next |-> nextSortOrder(sortObj[col.sort].defaultSortOrder)])
          /\ UNCHANGED tabVars
          /\ ev' = [op |-> "handleSort", arg |-> <<col.columnID>>]
    /\ render(~isLoading, pagination, pageIndexValue, obj, allRows)
    /\ UNCHANGED <<props, rowVars, pagination, pendingPage, colObj, allColumns, pendingExpand>>

\* Mutant of handleSortThenPagination: the completion of a sort goes back to
\* the first page.
handleSortThenFirstPage(pg) == [pg EXCEPT !.currentPage = 1]

\* The pagination of the state after the setState of handleSort's .then,
\* which names allRows and allColumns only.
handleSortThenPagination(pg) == pg

\* The .then of handleSort, given the array `rows` (in the heap h) the sort
\* function resolved with.
handleSortThenWith(i, rows, h0) ==
    LET ps == pendingSort[i]
        rest == RemoveAt(pendingSort, i)
        h == updateRowIDs(h0, rows)
        s == IF ps.columnID + 1 \in 1..Len(ps.cols)
             THEN colObj[ps.cols[ps.columnID + 1]].sort ELSE 0
    IN /\ pendingSort' = rest
       /\ IF s # 0
          THEN LET live == Range(ps.cols) \cup CapturedColsIn(rest)
               IN /\ sortObj' = CollectSorts([sortObj EXCEPT ![s].defaultSortOrder = ps.next,
                                                             ![s].isSorted = TRUE],
                                             SortsOf(colObj, live))
                  /\ colObj' = CollectCols(colObj, live)
                  /\ obj' = Collect(h, CapturedIn(rest, pendingExpand) \cup Range(rows))
                  /\ allRows' = rows
                  /\ allColumns' = ps.cols
                  /\ hideLoader
                  /\ render(TRUE, handleSortThenPagination(pagination), pageIndexValue,
                            obj', allRows')
          ELSE \* allColumns[columnID] or its sort is undefined: the callback throws
               \* after updateRowIDs and before setState.
               LET live == Range(allColumns) \cup CapturedColsIn(rest)
               IN /\ obj' = Collect(h, CapturedIn(rest, pendingExpand) \cup Range(allRows))
                  /\ colObj' = CollectCols(colObj, live)
                  /\ sortObj' = CollectSorts(sortObj, SortsOf(colObj, live))
                  /\ UNCHANGED <<allRows, allColumns, isLoading, pageIndexValue, screen>>
       /\ pagination' = handleSortThenPagination(pagination)
       /\ UNCHANGED tabVars
       /\ ev' = [op |-> "handleSortThen", arg |-> <<ps.columnID, rows>>]
       /\ UNCHANGED <<props, selectAll, pendingPage, pendingExpand>>

\* The i-th pending sortFunction call resolves with an array `data` of row
\* objects the grid holds: the rows it was given, reordered, some of them, or
\* one of them twice.
handleSortThenSorted(i, data) ==
    /\ i \in 1..Len(pendingSort)
    /\ Range(data) \subseteq (Range(allRows) \cup Captured)
    /\ handleSortThenWith(i, data, obj)

\* The i-th pending sortFunction call resolves with an array of new rows.
\* When the .then throws, the rows of the state stay in the state.
handleSortThenNew(i, lits) ==
    /\ i \in 1..Len(pendingSort)
    /\ LET ps == pendingSort[i]
           throws == \/ ps.columnID + 1 \notin 1..Len(ps.cols)
                     \/ colObj[ps.cols[ps.columnID + 1]].sort = 0
           used == CapturedIn(RemoveAt(pendingSort, i), pendingExpand)
                       \cup (IF throws THEN Range(allRows) ELSE {})
       IN /\ CanAllocate(Len(lits), used)
          /\ LET new == NewArrayAvoiding(lits, used)
             IN handleSortThenWith(i, new[1], new[2])

(* --------------------------- column replacement ---------------------- *)

\* The n smallest column (or sort-spec) identities outside `used`.
RECURSIVE FreshColIds(_, _)
FreshColIds(n, used) ==
    IF n = 0 THEN <<>>
    ELSE LET c == CHOOSE x \in ColObjs \ used : \A y \in ColObjs \ used : x <= y
         IN <<c>> \o FreshColIds(n - 1, used \cup {c})

\* Mutant of setSortingState: an incoming column keeps the sort spec it
\* declares.
setSortingStateKeepDeclared(cH, columns, c) == cH[c].sort

\* setSortingState on the column c of the incoming array `columns`: the sort
\* spec it ends with (0: none).  A column that declares one gets `col &&
\* col.sort` of the first column of the state with its name.
setSortingState(cH, columns, c) ==
    IF cH[c].sort # 0
    THEN LET found == {i \in 1..Len(allColumns) :
                          colObj[allColumns[i]].columnName = cH[c].columnName}
         IN IF found = {} THEN 0
            ELSE colObj[allColumns[CHOOSE i \in found : \A j \in found : i <= j]].sort
    ELSE 0

\* updateColumnIDs: column.columnID = index, for every column of the array.
updateColumnIDs(columns, c) ==
    (CHOOSE i \in 1..Len(columns) :
         columns[i] = c /\ \A j \in 1..Len(columns) : columns[j] = c => j <= i) - 1

\* updateColumns(cols) on the state, cols being the array `columns` of column
\* objects in the heaps cH and sH: setColumnVisibility, setSortingState and
\* updateColumnIDs on the incoming columns, which become the state's.
updateColumnsOn(columns, cH, sH) ==
    \E h \in {[c \in ColObjs |->
                 IF c \in Range(columns)
                 THEN [cH[c] EXCEPT !.isVisible = setColumnVisibility(cH[c].isVisible),
                                    !.sort = setSortingState(cH, columns, c),
                                    !.columnID = updateColumnIDs(columns, c)]
                 ELSE cH[c]]},
       live \in {Range(columns) \cup CapturedColsIn(pendingSort)} :
       /\ colObj' = CollectCols(h, live)
       /\ sortObj' = CollectSorts(sH, SortsOf(h, live))
       /\ allColumns' = columns

\* What ev holds of a call updateColumns(cols): the
\* array passed in, for each incoming column whether it came in with a sort
\* spec and the isVisible it came in with, the arguments of the calls of
\* updateDataGridColumns, and the width each incoming column came in with.
updateColumnsArg(columns, cH) ==
    <<columns,
      [i \in 1..Len(columns) |-> cH[columns[i]].sort # 0],
      [i \in 1..Len(columns) |-> cH[columns[i]].isVisible],
      IF props.hasUpdateDataGridColumns THEN <<columns>> ELSE <<>>,
      [i \in 1..Len(columns) |-> cH[columns[i]].width] >>

\* updateColumns(cols), called by the owner of the component.
updateColumnsWith(columns, cH, sH) ==
    /\ updateColumnsOn(columns, cH, sH)
    /\ render(TRUE, pagination, pageIndexValue, obj, allRows)
    /\ UNCHANGED tabVars
    /\ ev' = [op |-> "updateColumns", arg |-> updateColumnsArg(columns, cH)]
    /\ UNCHANGED <<props, rowVars, isLoading, pagination, pendingPage, pendingSort,
                   pendingExpand>>

\* An array of columns a caller hands to the grid: new column objects, as
\* the literals `lits` declare them, or column objects the grid holds
\* already, `ids` (all of them, some of them, or one of them twice).
NewColumns(lits) == [held |-> FALSE, lits |-> lits, ids |-> <<>>]
HeldColumns(ids) == [held |-> TRUE, lits |-> <<>>, ids |-> ids]

\* The caller can supply the array colsIn: the model has column and sort-spec
\* objects left for its new columns, or the grid's arrays hold the column
\* objects it lists.
CanSupplyColumns(colsIn) ==
    IF colsIn.held
    THEN Range(colsIn.ids) \subseteq (Range(allColumns) \cup CapturedColsIn(pendingSort))
    ELSE /\ Cardinality(ColObjs \ CapturedColsIn(pendingSort)) >= Len(colsIn.lits)
         /\ Cardinality(SortObjs \ SortsOf(colObj, Range(allColumns)
                                                      \cup CapturedColsIn(pendingSort)))
                >= Len(colsIn.lits)

\* The array colsIn in the heaps: <<ids, column heap, sort-spec heap>>.  New
\* columns come as the caller declares them, each with a sort spec of its
\* own when it declares one, and take the identities that no pending closure
\* holds.
SuppliedColumns(colsIn) ==
    IF colsIn.held THEN <<colsIn.ids, colObj, sortObj>>
    ELSE LET lits == colsIn.lits
             usedCols == CapturedColsIn(pendingSort)
             usedSorts == SortsOf(colObj, Range(allColumns) \cup usedCols)
             ids == FreshColIds(Len(lits), usedCols)
             sids == FreshColIds(Len(lits), usedSorts)
             at(c) == CHOOSE i \in 1..Len(ids) : ids[i] = c
             cH == [c \in ColObjs |->
                       IF c \in Range(ids)
                       THEN [columnName |-> lits[at(c)].columnName, columnID |-> 0,
                             isVisible |-> lits[at(c)].isVisible,
                             width |-> lits[at(c)].width,
                             sort |-> IF lits[at(c)].hasSort THEN sids[at(c)] ELSE 0]
                       ELSE colObj[c]]
             sH == [x \in SortObjs |->
                       IF \E i \in 1..Len(sids) : sids[i] = x /\ lits[i].hasSort
                       THEN LET i == CHOOSE i \in 1..Len(sids) : sids[i] = x
                            IN [defaultSortOrder |-> lits[i].defaultSortOrder,
                                isSorted |-> lits[i].isSorted]
                       ELSE sortObj[x]]
         IN <<ids, cH, sH>>

\* updateColumns with an array of new column objects; the columns of the
\* state, which setSortingState looks up, are read from colObj.
updateColumnsNew(lits) ==
    /\ CanSupplyColumns(NewColumns(lits))
    /\ \E new \in {SuppliedColumns(NewColumns(lits))} :
           updateColumnsWith(new[1], new[2], new[3])

\* updateColumns with an array `cols` of column objects the grid holds.
updateColumnsSame(cols) ==
    /\ CanSupplyColumns(HeldColumns(cols))
    /\ updateColumnsWith(cols, colObj, sortObj)

\* componentDidUpdate(prevProps), after the render that follows new props
\* from the parent: the grid is on the screen again as the state has it, then
\* updateRows(rows, pagination && pagination.totalItems) runs when props.rows
\* is another array than before (newRows) and updateColumns(columns) when
\* props.columns is (newCols).  hasTotal: the props have a pagination with a
\* totalItems.  The other props come again as they were.  ev holds hasTotal,
\* totalItems, the current page the update found, newRows, newCols and, when
\* updateColumns ran, what ev holds of a call of updateColumns.
componentDidUpdate(newRows, rowsIn, hasTotal, totalItems, newCols, colsIn) ==
    /\ \E sc \in {Screen(props, pagination, obj, allRows)} :
       \E value \in {Render(props, screen, sc, pageIndexValue)} :
           IF newRows
           THEN /\ CanSupply(rowsIn)
                /\ \E new \in {Supplied(rowsIn)} :
                       updateRowsOn(sc, value, new[1], new[2], hasTotal, totalItems)
           ELSE /\ screen' = sc
                /\ pageIndexValue' = value
                /\ UNCHANGED <<obj, allRows, selectAll, pagination>>
    /\ IF newCols
       THEN /\ CanSupplyColumns(colsIn)
            /\ \E new \in {SuppliedColumns(colsIn)} :
                   /\ updateColumnsOn(new[1], new[2], new[3])
                   /\ ev' = [op |-> "componentDidUpdate",
                             arg |-> <<hasTotal, totalItems, pagination.currentPage,
                                       newRows, newCols,
                                       updateColumnsArg(new[1], new[2])>>]
       ELSE /\ UNCHANGED colVars
            /\ ev' = [op |-> "componentDidUpdate",
                      arg |-> <<hasTotal, totalItems, pagination.currentPage,
                                newRows, newCols, <<>> >>]
    /\ UNCHANGED tabVars
    /\ UNCHANGED <<props, isLoading, pendingPage, pendingSort, pendingExpand>>

\* Widths a column resize reports.
Widths == {50}

\* Mutant of resizedColumn: the width is given to every column of the array.
resizedColumnAny(cH, columns, columnID, width) ==
    [c \in ColObjs |-> IF c \in Range(columns) THEN [cH[c] EXCEPT !.width = width] ELSE cH[c]]

\* updateColumnWidth: allColumns[col.columnID].width = col.width, on the
\* array `columns` of the heap cH.
resizedColumn(cH, columns, columnID, width) ==
    [cH EXCEPT ![columns[columnID + 1]].width = width]

\* updateColumnWidth(col), col carrying the columnID of the k-th column of
\* the state and the new width; k = 0: col carries no columnID (written -1
\* in ev).
updateColumnWidth(k, width) ==
    /\ k \in 0..Len(allColumns)
    /\ IF k = 0
       THEN /\ colObj' = colObj
            /\ render(FALSE, pagination, pageIndexValue, obj, allRows)
            /\ UNCHANGED tabVars
            /\ ev' = [op |-> "updateColumnWidth", arg |-> <<0 - 1, width>>]
       ELSE LET columnID == colObj[allColumns[k]].columnID
            IN /\ IF columnID + 1 \in 1..Len(allColumns)
                  THEN /\ colObj' = resizedColumn(colObj, allColumns, columnID, width)
                       /\ render(TRUE, pagination, pageIndexValue, obj, allRows)
                  ELSE \* allColumns[col.columnID] is undefined: the call throws.
                       /\ colObj' = colObj
                       /\ render(FALSE, pagination, pageIndexValue, obj, allRows)
               /\ UNCHANGED tabVars
               /\ ev' = [op |-> "updateColumnWidth", arg |-> <<columnID, width>>]
    /\ UNCHANGED <<props, rowVars, isLoading, pagination, pendingPage, sortObj, allColumns,
                   pendingSort, pendingExpand>>

(* ----------------------- specification: pagination -------------------- *)

InitPage ==
    \E gpd \in BOOLEAN, inp \in Footers,
       lits \in OneRow,
       currentPage \in 1..MaxInitPage, pageSize \in PageSizes, totalItems \in ItemCounts :
        /\ NoNewTabs
        /\ Construct(Props(FALSE, TRUE, gpd, inp, "multi"), OneSortColumn, lits,
                     currentPage, pageSize, totalItems)

\* Total item counts the parent gives in a later render.
NewItemCounts == {0, MaxItems, 25}

\* props.columns of a render that gives the columns of the state again.
SameColumns == HeldColumns(<<>>)

NextPage ==
    \/ \E size \in PageSizes : handleSelectPageSize(size)
    \/ gotoFirstPage
    \/ gotoLastPage
    \/ gotoNextPage
    \/ gotoPreviousPage
    \/ \E text \in TypedTexts : handlePageChange(text)
    \/ \E i \in 1..MaxPendingPage, lits \in OneRow : getPageThen(i, lits)
    \/ \E lits \in OneRow, totalItems \in ItemCounts :
           updateRows(NewRows(lits), TRUE, totalItems)
    \/ \E lits \in OneRow : updateRows(NewRows(lits), FALSE, 0)
    \/ \E newRows \in BOOLEAN, lits \in OneRow, totalItems \in NewItemCounts :
           componentDidUpdate(newRows, NewRows(lits), TRUE, totalItems, FALSE, SameColumns)
    \/ ownerShowLoader
    \/ ownerHideLoader

SpecPage == InitPage /\ [][NextPage]_vars

\* SpecPage with every getPageData call resolving eventually.
SpecPageFair ==
    /\ InitPage
    /\ [][NextPage]_vars
    /\ WF_vars(\E i \in 1..MaxPendingPage, lits \in OneRow : getPageThen(i, lits))

(* ------------------------ specification: sorting --------------------- *)

\* Arrays of row objects a caller or a sort function can come with.
ObjArrays == UNION {[1..k -> Objs] : k \in 0..MaxRows}

\* Those made of the row objects of the array s: s reordered, some of its
\* rows, one of its rows twice.
ArraysOf(s) == {t \in ObjArrays : Range(t) \subseteq Range(s)}

\* Two sortable columns, at most one of them sorted by the caller.
TwoSortColumns ==
    {<<ColLit("A", "undefined", 0, TRUE, oa, sa), ColLit("B", "undefined", 0, TRUE, NONE, sb)>> :
        oa \in SortOrder, sa \in BOOLEAN, sb \in BOOLEAN} \
    {<<ColLit("A", "undefined", 0, TRUE, oa, TRUE), ColLit("B", "undefined", 0, TRUE, NONE, TRUE)>> :
        oa \in SortOrder}

InitCols ==
    \E cols \in TwoSortColumns, lits \in OneRow :
        /\ NoNewTabs
        /\ Construct(Props(FALSE, TRUE, TRUE, "compact", "multi"), cols, lits, 1, 5, MaxItems)

NextCols ==
    \/ \E k \in 1..MaxCols : handleSort(k)
    \/ \E i \in 1..MaxPendingSort :
           i <= Len(pendingSort) /\ handleSortThenSorted(i, pendingSort[i].rows)
    \/ \E i \in 1..MaxPendingSort, lits \in OneRow : handleSortThenNew(i, lits)
    \/ gotoNextPage
    \/ gotoPreviousPage
    \/ \E i \in 1..MaxPendingPage, lits \in OneRow : getPageThen(i, lits)
    \/ \E newRows \in BOOLEAN, lits \in OneRow :
           componentDidUpdate(newRows, NewRows(lits), TRUE, pagination.totalItems,
                              FALSE, SameColumns)
    \/ ownerShowLoader
    \/ ownerHideLoader

SpecCols == InitCols /\ [][NextCols]_vars

(* ----------------------- specification: selection -------------------- *)

InitSelWith(selectionType) ==
    \E lits \in RowArrays(SelRows, MaxRows) :
        /\ NoNewTabs
        /\ Construct([Props(FALSE, TRUE, TRUE, "compact", selectionType)
                          EXCEPT !.rowType = EXPANDABLE],
                     OneSortColumn, lits, 1, 5, MaxItems)

\* Multi selection.
InitSel == InitSelWith("multi")

\* Single selection.
InitSelSingle == InitSelWith("single")

\* A column without sort spec, as a caller declares it in a replacement.
PlainColumn == <<ColLit("A", "undefined", 0, FALSE, NONE, FALSE)>>

\* One sort, one page request or one content load at a time, and a row is
\* expanded while no other is.  The parent
\* gives the rows again (newRows false), gives an array of rows of the state
\* (reordered, some of them, one of them twice) or, while no callback holds
\* rows, gives an array of new rows; it gives the column again or replaces it
\* by a column without sort spec.  The sort function resolves with new rows
\* or with an array of the rows it was given.  The loader of a row resolves
\* with no content.
NextSelRow ==
    \/ \E k \in 1..MaxRows : handleSelectSingle(k)
    \/ getSelectedRows
    \/ \E newRows \in BOOLEAN, newCols \in BOOLEAN,
          rowsIn \in {NewRows(lits) : lits \in RowArrays(SelRows, 1)}
                         \cup {HeldRows(ids) : ids \in ArraysOf(allRows)} :
           /\ newRows \/ rowsIn = NewRows(<<>>)
           /\ (newRows /\ ~rowsIn.held) => Captured = {}
           /\ componentDidUpdate(newRows, rowsIn, FALSE, 0, newCols, NewColumns(PlainColumn))
    \/ \E k \in 1..MaxRows :
           /\ pendingSort = <<>> /\ pendingPage = <<>>
           /\ \A o \in Range(allRows) : ~obj[o].isExpanded
           /\ toggleExpand(k)
    \/ \E i \in 1..MaxPendingExpand : toggleExpandThen(i, 0)
    \/ \E k \in 1..MaxCols :
           pendingSort = <<>> /\ pendingExpand = <<>> /\ pendingPage = <<>> /\ handleSort(k)
    \/ \E i \in 1..MaxPendingSort, data \in ObjArrays :
           /\ i <= Len(pendingSort)
           /\ data \in ArraysOf(pendingSort[i].rows)
           /\ handleSortThenSorted(i, data)
    \/ \E i \in 1..MaxPendingSort, lits \in RowArrays(SelRows, 1) :
           handleSortThenNew(i, lits)
    \/ pendingSort = <<>> /\ pendingExpand = <<>> /\ pendingPage = <<>> /\ gotoNextPage
    \/ \E i \in 1..MaxPendingPage, lits \in RowArrays(SelRows, 1) : getPageThen(i, lits)

\* Multi selection has the select-all box too.
NextSel ==
    \/ handleSelectAll
    \/ NextSelRow

SpecSel == InitSel /\ [][NextSel]_vars

\* Single selection: the header renders no select-all box.
SpecSelSingle == InitSelSingle /\ [][NextSelRow]_vars

(* ----------------------- specification: expansion --------------------- *)

InitExp ==
    \E lits \in [1..MaxRows -> ExpRows] :
        /\ NoNewTabs
        /\ Construct([Props(FALSE, FALSE, FALSE, "none", "multi") EXCEPT !.rowType = EXPANDABLE],
                     OneSortColumn, lits, 1, 5, 0)

\* One sort at a time, and no toggle while it is pending.  The parent gives
\* the rows again (newRows false), an array of rows of the state (reordered,
\* some of them, one of them twice) or, while no callback holds rows, an
\* array of new rows.  The sort function resolves with new rows or with an
\* array of the rows it was given.
NextExp ==
    \/ \E k \in 1..MaxRows : pendingSort = <<>> /\ toggleExpand(k)
    \/ \E i \in 1..MaxPendingExpand, content \in 1..MaxContent : toggleExpandThen(i, content)
    \/ \E k \in 1..MaxCols : pendingSort = <<>> /\ handleSort(k)
    \/ \E i \in 1..MaxPendingSort, data \in ObjArrays :
           /\ i <= Len(pendingSort)
           /\ data \in ArraysOf(pendingSort[i].rows)
           /\ handleSortThenSorted(i, data)
    \/ \E i \in 1..MaxPendingSort, lits \in RowArrays(ExpRows, 1) :
           handleSortThenNew(i, lits)
    \/ \E newRows \in BOOLEAN,
          rowsIn \in {NewRows(lits) : lits \in RowArrays(ExpRows, 1)}
                         \cup {HeldRows(ids) : ids \in ArraysOf(allRows)} :
           /\ newRows \/ rowsIn = NewRows(<<>>)
           /\ (newRows /\ ~rowsIn.held) => Captured = {}
           /\ componentDidUpdate(newRows, rowsIn, FALSE, 0, FALSE, SameColumns)

SpecExp == InitExp /\ [][NextExp]_vars

(* ------------------ specification: column replacement ---------------- *)

\* Arrays of column objects a caller can hand to updateColumns.
ColArrays == UNION {[1..k -> ColObjs] : k \in 0..MaxCols}

\* Columns as a caller declares them in a replacement: A without visibility
\* flag, C with isVisible false, both without width, with or without a sort
\* spec, which is declared as DESCENDING and sorted.
ColumnDecls ==
    {ColLit(n, IF n = "A" THEN "undefined" ELSE "false", 0, hs,
            IF hs THEN DESC ELSE NONE, hs) :
        n \in {"A", "C"}, hs \in BOOLEAN}

\* Arrays of at most MaxCols declared columns with distinct names, A before
\* C (updateColumnsSame gives the other orders).
ColumnDeclArrays ==
    {a \in UNION {[1..k -> ColumnDecls] : k \in 1..MaxCols} :
        \A i, j \in 1..Len(a) : i < j => a[i].columnName = "A" /\ a[j].columnName = "C"}

\* A sortable column A, not sorted yet or sorted ascending, and a column B
\* with or without a sort spec.
InitColumnArrays ==
    {<<ColLit("A", "undefined", 0, TRUE, oa, oa = ASC),
       ColLit("B", "false", 50, hb, NONE, FALSE)>> :
        oa \in {NONE, ASC}, hb \in BOOLEAN}

\* With or without a listener footer.hideShowColumns.updateDataGridColumns.
InitColumns ==
    \E cols \in InitColumnArrays, lits \in OneRow, listener \in BOOLEAN :
        /\ NoNewTabs
        /\ Construct([Props(FALSE, FALSE, FALSE, "none", "multi")
                          EXCEPT !.hasUpdateDataGridColumns = listener],
                     cols, lits, 1, 5, 0)

\* One sort at a time, and no resize while it is pending.  The caller of
\* updateColumns and the parent give new columns or any array, a subset or
\* one with duplicates too, of the column objects of the state.
NextColumns ==
    \/ \E lits \in ColumnDeclArrays : updateColumnsNew(lits)
    \/ \E cols \in ColArrays :
           Range(cols) \subseteq Range(allColumns) /\ updateColumnsSame(cols)
    \/ \E k \in 0..MaxCols, width \in Widths : pendingSort = <<>> /\ updateColumnWidth(k, width)
    \/ \E k \in 1..MaxCols : pendingSort = <<>> /\ handleSort(k)
    \/ \E i \in 1..MaxPendingSort :
           i <= Len(pendingSort) /\ handleSortThenSorted(i, pendingSort[i].rows)
    \/ \E newCols \in BOOLEAN, cols \in ColArrays :
           /\ newCols \/ cols = <<>>
           /\ Range(cols) \subseteq Range(allColumns)
           /\ componentDidUpdate(FALSE, NewRows(<<>>), FALSE, 0, newCols, HeldColumns(cols))

SpecColumns == InitColumns /\ [][NextColumns]_vars

(* ------------------------------- NewTabs ------------------------------ *)

\* The longest tabs array.
MaxTabs == 3

\* enum TabType, enum TabOrientation.
STATIC == "static"
SIMPLE == "simple"
VERTICAL == "vertical"
HORIZONTAL == "horizontal"

\* The ids of the tabs, in the order the arrays list them.
TabIds == <<"a", "b", "c">>

\* A TabDetails object. isSelected and tabType are optional: "undefined" when
\* the caller leaves them out. name and isDisabled are only handed to the
\* Button and the DropdownItem.
TabLit(id, isSelected, tabType) ==
    [id |-> id, isSelected |-> isSelected, tabType |-> tabType]

\* Arrays of one to MaxTabs tabs with distinct ids, whose flags are drawn from
\* the given sets.
TabArrays(flags, types) ==
    UNION {{[i \in 1..Len(ids) |-> TabLit(ids[i], f[i], t[i])] :
               f \in [1..Len(ids) -> flags], t \in [1..Len(ids) -> types]} :
           ids \in {<<TabIds[1]>>, <<TabIds[2]>>, <<TabIds[3]>>,
                    <<TabIds[1], TabIds[2]>>, <<TabIds[1], TabIds[3]>>,
                    <<TabIds[2], TabIds[3]>>, TabIds}}

\* The props beside tabs; overflowTabsFrom is optional.
TabsProp(tabOrientation, hasOverflowTabsFrom, overflowTabsFrom) ==
    [tabOrientation |-> tabOrientation,
     hasOverflowTabsFrom |-> hasOverflowTabsFrom,
     overflowTabsFrom |-> overflowTabsFrom]

TabsProps ==
    {TabsProp(o, FALSE, 0) : o \in {VERTICAL, HORIZONTAL}} \cup
    {TabsProp(o, TRUE, k) : o \in {VERTICAL, HORIZONTAL}, k \in 0..MaxTabs - 1}

\* The page holds a NewTabs component and no DataGrid.
NoDataGrid ==
    /\ props = Props(FALSE, FALSE, FALSE, "none", "multi")
    /\ obj = [o \in Objs |-> DefaultRow]
    /\ allRows = <<>>
    /\ selectAll = FALSE
    /\ isLoading = FALSE
    /\ pagination = NoPagination
    /\ pageIndexValue = <<>>
    /\ screen = NoScreen
    /\ colObj = [c \in ColObjs |-> DefaultCol]
    /\ sortObj = [c \in SortObjs |-> DefaultSort]
    /\ allColumns = <<>>
    /\ pendingPage = <<>>
    /\ pendingSort = <<>>
    /\ pendingExpand = <<>>

\* constructor(props), props.tabs not empty.
NewTabsConstruct(p, ts) ==
    /\ tabsProp = p
    /\ tabs = ts
    /\ isOverflowTabSelected = FALSE
    /\ selectedTabId = ts[1].id
    /\ ev = [op |-> "NewTabs", arg |-> <<ts>>]

\* renderTabLinks: the tab at index (from 0) is an item of the overflow menu.
\* The menu is rendered at index === overflowTabsFrom of a horizontal bar, with
\* the tabs from that index on; no later tab is rendered as a link.
inOverflowMenu(p, ts, index) ==
    /\ p.tabOrientation = HORIZONTAL
    /\ p.hasOverflowTabsFrom
    /\ p.overflowTabsFrom < Len(ts)
    /\ index >= p.overflowTabsFrom

\* tabClicked, lines 97-102: the index (from 1) of the last tab whose
\* isSelected is truthy, 0 for undefined.
lastActiveTabIndex(ts) ==
    LET active == {i \in 1..Len(ts) : ts[i].isSelected = "true"}
    IN IF active = {} THEN 0 ELSE CHOOSE i \in active : \A j \in active : j <= i

\* tabClicked, lines 99-120: the flags after the loop and the statement that
\* follows it.
tabsAfterClicked(ts, clickedTab) ==
    LET isStatic == clickedTab.tabType = STATIC
        last == lastActiveTabIndex(ts)
        looped == [i \in 1..Len(ts) |->
                      [ts[i] EXCEPT !.isSelected =
                          IF clickedTab.id = ts[i].id /\ ~isStatic THEN "true" ELSE "false"]]
        activeLastTab == isStatic /\ \E i \in 1..Len(ts) : clickedTab.id = ts[i].id
    IN IF activeLastTab /\ last # 0
       THEN [looped EXCEPT ![last].isSelected = "true"]
       ELSE looped

\* tabClicked(evt, clickedTab, isOverflowTab).
tabClicked(clickedTab, isOverflowTab) ==
    /\ tabs' = tabsAfterClicked(tabs, clickedTab)
    /\ isOverflowTabSelected' = isOverflowTab
    /\ selectedTabId' = clickedTab.id
    /\ ev' = [op |-> "tabClicked", arg |-> <<clickedTab.id, isOverflowTab>>]
    /\ UNCHANGED <<gridVars, tabsProp>>

\* tabClick(evt, clickedTab, isOverflowTab).
tabClick(clickedTab, isOverflowTab) ==
    /\ isOverflowTabSelected' = isOverflowTab
    /\ selectedTabId' = clickedTab.id
    /\ ev' = [op |-> "tabClick", arg |-> <<clickedTab.id, isOverflowTab>>]
    /\ UNCHANGED <<gridVars, tabsProp, tabs>>

\* A click on the link of the i-th tab: onClick of renderTabLink.
clickTabLink(i) ==
    /\ i <= Len(tabs)
    /\ ~inOverflowMenu(tabsProp, tabs, i - 1)
    /\ tabClick(tabs[i], FALSE)

\* A click on the item of the i-th tab in the overflow menu: onClick of
\* renderOverflowTab.
clickOverflowItem(i) ==
    /\ i <= Len(tabs)
    /\ inOverflowMenu(tabsProp, tabs, i - 1)
    /\ tabClicked(tabs[i], TRUE)

\* The parent renders the component again with another tabs array; the
\* component has no handler for it and keeps its state.
renderWithTabs(ts) ==
    /\ ts # tabs
    /\ tabs' = ts
    /\ UNCHANGED <<gridVars, tabsProp, isOverflowTabSelected, selectedTabId, ev>>

(* -------------------------- specification: tabs ----------------------- *)

\* Tabs as the caller hands them over: selected or not, static, simple or
\* without type.
InitTabArrays == TabArrays({"undefined", "true"}, {"undefined", SIMPLE, STATIC})

\* Tabs of a later render: none marked as selected.
LaterTabArrays == TabArrays({"undefined"}, {SIMPLE, STATIC})

InitTabs ==
    \E p \in TabsProps, ts \in InitTabArrays :
        /\ NoDataGrid
        /\ NewTabsConstruct(p, ts)

NextTabs ==
    \/ \E i \in 1..MaxTabs : clickTabLink(i)
    \/ \E i \in 1..MaxTabs : clickOverflowItem(i)
    \/ \E ts \in LaterTabArrays : renderWithTabs(ts)

SpecTabs == InitTabs /\ [][NextTabs]_vars

(* ------------------------- claims: pagination ------------------------- *)

\* The least n with n * b >= a: ceil(a / b) for a >= 0, b > 0.
CeilDiv(a, b) == CHOOSE n \in 0..a : n * b >= a /\ (n = 0 \/ (n - 1) * b < a)

Max(a, b) == IF a > b THEN a ELSE b

\* The handlers that end in getPage with a requested page and a page size.
NavOps == {"handleSelectPageSize", "gotoFirstPage", "gotoLastPage", "gotoNextPage",
           "gotoPreviousPage"}

\* C4 as stated: totalPages = ceil(totalItems / pageSize) with a minimum of 1,
\* in every state of an active pagination (so 1 when totalItems = 0).
C4_TotalPagesAtLeastOne ==
    props.hasPagination =>
        pagination.totalPages = Max(1, CeilDiv(pagination.totalItems, pagination.pageSize))

\* C4 as amended: totalPages = ceil(totalItems / pageSize) in every state of an
\* active pagination, after construction, gotoPage / changePageSize and an
\* external total-item-count change: 0 when totalItems = 0, and 3 for
\* totalItems = 25, pageSize = 10.
C4_TotalPagesIsCeil ==
    props.hasPagination =>
        /\ pagination.totalPages = CeilDiv(pagination.totalItems, pagination.pageSize)
        /\ (pagination.totalItems = 0 => pagination.totalPages = 0)
        /\ (pagination.totalItems = 25 /\ pagination.pageSize = 10 => pagination.totalPages = 3)

\* C4 witness: a page-size change to 10 with 25 items has left 3 pages.
C4_Witness ==
    /\ ev.op = "handleSelectPageSize"
    /\ pagination.totalItems = 25 /\ pagination.pageSize = 10 /\ pagination.totalPages = 3

\* C5: 1 <= currentPage <= totalPages in every state of an active pagination
\* (every state of the model lies outside a reconciliation step), for any
\* caller-supplied currentPage and pageSize; stated for grids with at least
\* one item, where totalPages >= 1.
C5_CurrentPageInRange ==
    (props.hasPagination /\ pagination.totalItems > 0) =>
        1 <= pagination.currentPage /\ pagination.currentPage <= pagination.totalPages

\* C6: with an active pagination and totalItems > 0,
\* firstItem = (currentPage - 1) * pageSize + 1 and
\* lastItem = min(firstItem + pageSize - 1, totalItems); for 25 items and
\* pageSize 10, page 1 gives 1..10 and page 3 gives 21..25.
C6_ItemIndexes ==
    (props.hasPagination /\ pagination.totalItems > 0) =>
        /\ pagination.firstItem = (pagination.currentPage - 1) * pagination.pageSize + 1
        /\ pagination.lastItem =
               IF pagination.firstItem + pagination.pageSize - 1 < pagination.totalItems
               THEN pagination.firstItem + pagination.pageSize - 1
               ELSE pagination.totalItems
        /\ (pagination.totalItems = 25 /\ pagination.pageSize = 10 =>
               /\ (pagination.currentPage = 1 =>
                       pagination.firstItem = 1 /\ pagination.lastItem = 10)
               /\ (pagination.currentPage = 3 =>
                       pagination.firstItem = 21 /\ pagination.lastItem = 25))

\* C6 witness: the fetch of page 3 of 25 items, 10 per page, has completed and
\* the state shows items 21..25.
C6_Witness ==
    /\ ev.op = "getPageThen" /\ ev.arg[1] = 3 /\ ev.arg[2] = 10 /\ pendingPage = <<>>
    /\ pagination.totalItems = 25 /\ pagination.pageSize = 10 /\ pagination.currentPage = 3
    /\ pagination.firstItem = 21 /\ pagination.lastItem = 25

\* C7: with a page-loader, at least one page and currentPage in range, a
\* request for page p with
\* page size s (through a navigation handler, the page-size select, or a
\* number typed into the page-index input) leaves currentPage =
\* min(max(p, 1), T), T the page count for s; so page 0 typed into the input
\* resolves to page 1.
C7_GotoPageClamps ==
    [][ LET isNav == ev'.op \in NavOps
            inRange == 1 <= pagination.currentPage
                       /\ pagination.currentPage <= pagination.totalPages
            typed == IF ev'.op = "handlePageChange" THEN ParseInt(ev'.arg) ELSE NaN
            p == IF isNav THEN ev'.arg[1] ELSE typed.val
            s == IF isNav THEN ev'.arg[2] ELSE pagination.pageSize
            T == CeilDiv(pagination.totalItems, s)
        IN (props.hasGetPageData /\ inRange /\ T >= 1 /\ (isNav \/ ~typed.isNaN))
               => /\ pagination'.currentPage = Min(Max(p, 1), T)
                  /\ pagination'.pageSize = s ]_vars

\* C8: text that does not parse as an integer sets the page-index input back
\* to currentPage and changes nothing else.
C8_NonNumericReverts ==
    [][ (ev'.op = "handlePageChange" /\ ParseInt(ev'.arg).isNaN)
            => /\ pageIndexValue' = toString(pagination.currentPage)
               /\ UNCHANGED <<obj, allRows, selectAll, isLoading, pagination, pendingPage>> ]_vars

\* C9: without a page-loader every page navigation request is a no-op: rows
\* and pagination are unchanged and the loading flag is not set.
C9_NoLoaderNoOp ==
    [][ (~props.hasGetPageData /\ ev'.op \in NavOps)
            => /\ UNCHANGED <<obj, allRows, selectAll, pagination, pendingPage>>
               /\ isLoading' = isLoading ]_vars

(* --------------------------- claims: sorting -------------------------- *)

\* The columns of the state whose sort spec says isSorted.
SortedColumns ==
    {k \in 1..Len(allColumns) :
        colObj[allColumns[k]].sort # 0 /\ sortObj[colObj[allColumns[k]].sort].isSorted}

\* C2: at most one column has isSorted = true in every reachable state,
\* overlapping sort activations included.
C2_AtMostOneSorted == Cardinality(SortedColumns) <= 1

\* Some sort or page callback issued by the grid is pending in the state.
CallbackPending == Len(pendingSort) > 0 \/ Len(pendingPage) > 0

\* C10: the loading flag is true whenever a sort or a page callback is
\* pending, overlapping requests included, unless the owner called hideLoader:
\* no step other than a hideLoader call from outside takes the grid from a
\* state where the flag is true if a callback is pending to a state where a
\* callback is pending and the flag is false.
C10_LoadingWhilePending ==
    [][ (ev'.op # "hideLoader" /\ (CallbackPending => isLoading))
            => (CallbackPending' => isLoading') ]_vars

(* ------------------------ claims: rows and selection ------------------ *)

\* C1: in every reachable state the row at index i of the row collection has
\* id i (construction, row replacement, sort, page and content-load
\* completion, in any interleaving).
C1_RowIdIsIndex ==
    \A i \in 1..Len(allRows) : obj[allRows[i]].rowID = i - 1

\* Indexes of the rows eligible for selection.
Eligible == {i \in 1..Len(allRows) : ~obj[allRows[i]].disableRowSelection}

\* C3: the select-all flag is true exactly when there is an eligible row and
\* every eligible row is selected; it is false when no row is eligible.
C3_SelectAllFlag ==
    selectAll <=> (Eligible # {} /\ \A i \in Eligible : obj[allRows[i]].isSelected)

(* --------------------------- claims: expansion ------------------------ *)

\* The row toggleExpand(rowID) addresses: the one at index rowID, when the
\* row sequence has that index.
ToggledRow == allRows[ev'.arg[1] + 1]

\* C11: once the content of a row with a loader has been loaded, collapsing
\* and re-expanding the row does not invoke the loader again and keeps the
\* loaded content.
C11_LoadsOnce ==
    [][ (/\ ev'.op = "toggleExpand" /\ ev'.arg[1] + 1 \in 1..Len(allRows)
         /\ obj[ToggledRow].hasLoader /\ obj[ToggledRow].content # 0)
            => /\ pendingExpand' = pendingExpand
               /\ obj'[ToggledRow].content = obj[ToggledRow].content ]_vars

(* ----------------------- claims: sort order and effect ---------------- *)

\* The order an activation is to request for a column whose order is `order`.
RequestedOrder(order) == IF order \in {NONE, DESC} THEN ASC ELSE DESC

\* The sort spec of the column a sort step names by its columnID.
SortOfEvColumn == colObj[allColumns[ev'.arg[1] + 1]].sort

\* C12: an activation of a sortable column requests ASCENDING when the
\* column's order is NONE or DESCENDING and DESCENDING otherwise, and a sort
\* that completes before the next activation leaves the column in the
\* requested order: NONE, then ASCENDING, then DESCENDING, then ASCENDING.
C12_SortOrderCycle ==
    [][ /\ (ev'.op = "handleSort") =>
               pendingSort'[Len(pendingSort')].next =
                   RequestedOrder(sortObj[SortOfEvColumn].defaultSortOrder)
        /\ (ev'.op = "handleSortThen" /\ Len(pendingSort) = 1 /\ pendingSort' = <<>>) =>
               sortObj'[SortOfEvColumn].defaultSortOrder =
                   RequestedOrder(sortObj[SortOfEvColumn].defaultSortOrder) ]_vars

\* C12 witness: a second completed activation has left the column, which
\* started with NONE, in DESCENDING.
C12_Witness ==
    /\ ev.op = "handleSortThen" /\ pendingSort = <<>>
    /\ sortObj[colObj[allColumns[1]].sort].defaultSortOrder = DESC
    /\ sortObj[colObj[allColumns[1]].sort].isSorted

\* C13: a sort activation on column c hands the sort function the current
\* rows, the next order and c's name; when the call resolves with rows R the
\* row sequence is R with ids reassigned, c has the requested order and is
\* the active sort column, every other column is inactive, and the loading
\* flag is cleared.
C13_SortEffect ==
    [][ /\ (ev'.op = "handleSort") =>
               LET call == pendingSort'[Len(pendingSort')]
                   c == colObj[allColumns[ev'.arg[1] + 1]]
               IN /\ call.rows = allRows
                  /\ call.next = RequestedOrder(sortObj[c.sort].defaultSortOrder)
                  /\ call.columnName = c.columnName
        /\ (ev'.op = "handleSortThen") =>
               \E i \in 1..Len(pendingSort) :
                   /\ pendingSort' = RemoveAt(pendingSort, i)
                   /\ pendingSort[i].columnID = ev'.arg[1]
                   /\ allRows' = ev'.arg[2]
                   /\ \A j \in 1..Len(allRows') : obj'[allRows'[j]].rowID = j - 1
                   /\ sortObj'[colObj'[allColumns'[ev'.arg[1] + 1]].sort].defaultSortOrder =
                          pendingSort[i].next
                   /\ \A k \in 1..Len(allColumns') :
                          sortObj'[colObj'[allColumns'[k]].sort].isSorted
                              <=> (k = ev'.arg[1] + 1)
                   /\ ~isLoading' ]_vars

(* --------------------------- claims: selection ------------------------ *)

\* Indexes of the selected rows.
SelectedRows == {i \in 1..Len(allRows) : obj[allRows[i]].isSelected}

\* C14: in single selection, after selectSingle(rowId) every row other than
\* the toggled one is unselected, so that exactly one row is selected (the
\* toggled row), or none if the call deselected it.
C14_SingleSelection ==
    [][ (ev'.op = "handleSelectSingle" /\ props.selectionType = "single") =>
            /\ \A i \in 1..Len(allRows') :
                   obj'[allRows'[i]].isSelected => allRows'[i] = ev'.arg[2]
            /\ obj'[ev'.arg[2]].isSelected = ~obj[ev'.arg[2]].isSelected
            /\ Cardinality(SelectedRows') = IF obj[ev'.arg[2]].isSelected THEN 0 ELSE 1 ]_vars

\* C15: selectAll sets selected to the target state, the negation of the
\* aggregate flag, on every selection-eligible row, leaves the selected flag
\* of every selection-disabled row unchanged, and invokes onSelectAll with the
\* resulting aggregate state and the full row set.
C15_SelectAllEffect ==
    [][ (ev'.op = "handleSelectAll") =>
            /\ allRows' = allRows
            /\ \A i \in 1..Len(allRows) :
                   obj'[allRows[i]].isSelected =
                       IF obj[allRows[i]].disableRowSelection
                       THEN obj[allRows[i]].isSelected ELSE ~selectAll
            /\ selectAll' = ~selectAll
            /\ ev'.arg = <<selectAll', allRows'>> ]_vars

\* C15 witness: selectAll has selected the eligible row of a grid of two and
\* left the selection-disabled row unselected.
C15_Witness ==
    /\ ev.op = "handleSelectAll" /\ selectAll /\ Len(allRows) = 2
    /\ \E i, j \in 1..2 :
           /\ ~obj[allRows[i]].disableRowSelection /\ obj[allRows[i]].isSelected
           /\ obj[allRows[j]].disableRowSelection /\ ~obj[allRows[j]].isSelected

\* C16: selectSingle(rowId) flips the selected flag of exactly the row whose
\* id is rowId; in multi selection the selected flag of every other row is
\* unchanged; the aggregate flag is recomputed, and onRowSelect is invoked
\* with the toggled row.
C16_SelectSingleEffect ==
    [][ (ev'.op = "handleSelectSingle") =>
            LET toggled == {i \in 1..Len(allRows) : obj[allRows[i]].rowID = ev'.arg[1]}
            IN /\ allRows' = allRows
               /\ Cardinality(toggled) = 1
               /\ \A i \in toggled :
                      /\ obj'[allRows[i]].isSelected = ~obj[allRows[i]].isSelected
                      /\ ev'.arg[2] = allRows[i]
               /\ props.selectionType = "multi" =>
                      \A i \in (1..Len(allRows)) \ toggled :
                          obj'[allRows[i]].isSelected = obj[allRows[i]].isSelected
               /\ selectAll' <=> (Eligible' # {} /\ Eligible' \subseteq SelectedRows') ]_vars

\* The step replaces the column sequence: a call of updateColumns, or a
\* componentDidUpdate that found another props.columns.
ColumnsReplaced ==
    ev'.op = "updateColumns" \/ (ev'.op = "componentDidUpdate" /\ ev'.arg[5])

\* What ev holds of the replacement.
ReplacedArg == IF ev'.op = "updateColumns" THEN ev'.arg ELSE ev'.arg[6]

\* C17: on replacing the column sequence, an incoming column that declares
\* no sort spec ends with none; one that declares a sort spec ends with the
\* sort spec stored on the previous column of the same name, with the order
\* and the sorted flag stored there; one that declares a sort spec and has no
\* same-named previous column ends with none.
C17_CarryForwardSort ==
    [][ ColumnsReplaced =>
            \A i \in 1..Len(allColumns') :
                LET c == allColumns'[i]
                    prev == {j \in 1..Len(allColumns) :
                                colObj[allColumns[j]].columnName = colObj'[c].columnName}
                IN IF ~ReplacedArg[2][i] \/ prev = {}
                   THEN colObj'[c].sort = 0
                   ELSE LET p == allColumns[CHOOSE j \in prev : \A k \in prev : j <= k]
                        IN /\ colObj'[c].sort = colObj[p].sort
                           /\ colObj[p].sort # 0 =>
                                  sortObj'[colObj[p].sort] = sortObj[colObj[p].sort] ]_vars

\* C17 witness: a replacement has brought in a column that declares a sort
\* spec (declared descending) and ends with the ascending spec of the previous
\* column of its name, next to a column that ends with no sort spec.
C17_Witness ==
    /\ ev.op = "updateColumns" /\ Len(allColumns) = 2
    /\ \E i, j \in 1..2 :
           /\ ev.arg[2][i] /\ colObj[allColumns[i]].sort # 0
           /\ sortObj[colObj[allColumns[i]].sort].defaultSortOrder = ASC
           /\ ev.arg[2][j] /\ colObj[allColumns[j]].sort = 0

\* C18: in every reachable state the column at position i of the current
\* column sequence has id i.
C18_ColumnIdIsIndex ==
    \A k \in 1..Len(allColumns) : colObj[allColumns[k]].columnID = k - 1

\* C19: in every reachable state a row whose expansion loading flag is true
\* has a content-loader call pending for it, whatever toggles and loader
\* completions came before.
C19_LoadingOnlyWhilePending ==
    \A i \in 1..Len(allRows) :
        obj[allRows[i]].expLoading =>
            \E p \in 1..Len(pendingExpand) :
                pendingExpand[p].rows[pendingExpand[p].rowID + 1] = allRows[i]

\* C20: toggle(rowId) flips the expanded flag of the row whose id is rowId;
\* when that row has a content loader and becomes expanded, its loading flag
\* becomes true at once and the loader is invoked with that row, and when the
\* loader resolves the content is stored on the row and its loading flag
\* becomes false; otherwise the toggle leaves the loading flag alone and
\* invokes no loader.
C20_ToggleEffect ==
    [][ /\ (ev'.op = "toggleExpand") =>
               LET toggled == {i \in 1..Len(allRows) : obj[allRows[i]].rowID = ev'.arg[1]}
               IN /\ toggled # {}
                  /\ \A i \in toggled :
                         LET o == allRows[i]
                         IN /\ obj'[o].isExpanded = ~obj[o].isExpanded
                            /\ IF obj[o].hasLoader /\ ~obj[o].isExpanded
                               THEN /\ obj'[o].expLoading
                                    /\ Len(pendingExpand') = Len(pendingExpand) + 1
                                    /\ LET pe == pendingExpand'[Len(pendingExpand')]
                                       IN pe.rows[pe.rowID + 1] = o
                               ELSE /\ obj'[o].expLoading = obj[o].expLoading
                                    /\ pendingExpand' = pendingExpand
        /\ (ev'.op = "toggleExpandThen") =>
               \E p \in 1..Len(pendingExpand) :
                   /\ pendingExpand' = RemoveAt(pendingExpand, p)
                   /\ LET o == pendingExpand[p].rows[pendingExpand[p].rowID + 1]
                      IN /\ obj'[o].content = ev'.arg[2]
                         /\ ~obj'[o].expLoading ]_vars

\* The caller supplies a new totalItems in this step: as the argument of
\* updateRows, or as props.pagination.totalItems of an update of the props
\* that brings a new rows array or a totalItems other than the grid's.
NewTotalItemsSupplied ==
    /\ ev'.op \in {"updateRows", "componentDidUpdate"}
    /\ ev'.arg[1]
    /\ ev'.op = "componentDidUpdate" => (ev'.arg[4] \/ ev'.arg[2] # pagination.totalItems)

\* C21: when the caller supplies a new totalItems and the grid has pagination,
\* totalPages becomes the number of pages of the new totalItems at the
\* current pageSize; currentPage becomes 1 if it was greater than that and is
\* kept otherwise; firstItem and lastItem are those of the resulting
\* currentPage, and totalItems takes the new value.
C21_NewTotalItems ==
    [][ (NewTotalItemsSupplied /\ props.hasPagination) =>
            LET pageSize == pagination.pageSize
                totalPages == CeilDiv(ev'.arg[2], pageSize)
                currentPage == IF pagination.currentPage > totalPages
                               THEN 1 ELSE pagination.currentPage
            IN /\ pagination'.totalItems = ev'.arg[2]
               /\ pagination'.pageSize = pageSize
               /\ pagination'.totalPages = totalPages
               /\ pagination'.currentPage = currentPage
               /\ pagination'.firstItem = (currentPage - 1) * pageSize + 1
               /\ pagination'.lastItem = Min(currentPage * pageSize, ev'.arg[2]) ]_vars

\* C22: first, previous, next and last ask getPage for page 1,
\* max(currentPage - 1, 1), min(currentPage + 1, totalPages) and totalPages,
\* with the current pageSize; taken from a state with 1 <= currentPage <=
\* totalPages they leave currentPage in that range, on the requested page
\* when there is a page loader.
C22_NavigationTargets ==
    [][ LET cp == pagination.currentPage
            tp == pagination.totalPages
            target == CASE ev'.op = "gotoFirstPage" -> 1
                        [] ev'.op = "gotoPreviousPage" -> Max(cp - 1, 1)
                        [] ev'.op = "gotoNextPage" -> Min(cp + 1, tp)
                        [] OTHER -> tp
        IN (ev'.op \in {"gotoFirstPage", "gotoPreviousPage", "gotoNextPage", "gotoLastPage"}) =>
               /\ ev'.arg = <<target, pagination.pageSize>>
               /\ (1 <= cp /\ cp <= tp) =>
                      /\ 1 <= pagination'.currentPage
                      /\ pagination'.currentPage <= pagination'.totalPages
                      /\ pagination'.pageSize = pagination.pageSize
                      /\ props.hasGetPageData => pagination'.currentPage = target ]_vars

\* C22 witness: with a page loader, next() taken on the last of at least two
\* pages has asked for that last page again and the grid is still on it.
C22_Witness ==
    /\ ev.op = "gotoNextPage" /\ props.hasGetPageData
    /\ pagination.totalPages >= 2
    /\ ev.arg = <<pagination.totalPages, pagination.pageSize>>
    /\ pagination.currentPage = pagination.totalPages
    /\ Len(pendingPage) = 2
    /\ pendingPage[1].page = pagination.totalPages

\* C23: a page request through gotoPage leaves currentPage, pageSize,
\* firstItem, lastItem and totalPages at their pre-request values while the
\* page-loader call is pending; the completion of the call sets them to the
\* resolved page, replaces the rows by the fetched rows with ids by
\* position, and clears loading.
C23_PaginationOnCompletion ==
    [][ /\ (ev'.op \in NavOps \cup {"handlePageChange"}
               /\ Len(pendingPage') > Len(pendingPage)) =>
               pagination' = pagination
        /\ (ev'.op = "getPageThen") =>
               /\ pagination'.currentPage = ev'.arg[1]
               /\ pagination'.pageSize = ev'.arg[2]
               /\ \A i \in 1..Len(allRows') : obj'[allRows'[i]].rowID = i - 1
               /\ ~isLoading' ]_vars

\* C24: the activation of a sort and the completion of a sort leave
\* currentPage, pageSize, totalItems, firstItem, lastItem and totalPages
\* unchanged.
C24_SortKeepsPagination ==
    [][ (ev'.op \in {"handleSort", "handleSortThen"}) => pagination' = pagination ]_vars

\* C24 witness: a sort has completed with the grid on page 2 of 2, items 6 to
\* 6 of 6.
C24_Witness ==
    /\ ev.op = "handleSortThen" /\ pendingPage = <<>>
    /\ pagination.currentPage = 2 /\ pagination.totalPages = 2
    /\ pagination.firstItem = 6 /\ pagination.lastItem = 6
    /\ \E k \in 1..Len(allColumns) :
           colObj[allColumns[k]].sort # 0 /\ sortObj[colObj[allColumns[k]].sort].isSorted

\* The sort spec of the first column of the current sequence named `name`
\* (0: no such column, or it has none).
SortStoredFor(name) ==
    LET prev == {j \in 1..Len(allColumns) : colObj[allColumns[j]].columnName = name}
    IN IF prev = {} THEN 0
       ELSE colObj[allColumns[CHOOSE j \in prev : \A k \in prev : j <= k]].sort

\* C25: on receiving a new column sequence the grid makes every column that
\* came without isVisible visible and keeps an explicit false, carries the
\* sort spec forward by name, sets every column's id to its position, and
\* calls the listener updateDataGridColumns, when there is one, exactly once,
\* with the updated columns.
C25_UpdateColumnsEffect ==
    [][ (ev'.op = "updateColumns") =>
            /\ allColumns' = ev'.arg[1]
            /\ \A i \in 1..Len(allColumns') :
                   LET col == colObj'[allColumns'[i]]
                   IN /\ col.isVisible = IF ev'.arg[3][i] = "undefined"
                                         THEN "true" ELSE ev'.arg[3][i]
                      /\ col.sort = IF ev'.arg[2][i]
                                    THEN SortStoredFor(col.columnName) ELSE 0
                      /\ col.columnID = i - 1
            /\ ev'.arg[4] = IF props.hasUpdateDataGridColumns
                            THEN <<allColumns'>> ELSE <<>> ]_vars

\* The a-th position of the current row sequence that holds a selected row.
NthSelected(a) ==
    CHOOSE i \in SelectedRows : Cardinality({j \in SelectedRows : j <= i}) = a

\* C26: getSelectedRows returns exactly the rows of the current row sequence
\* whose selected flag is true, selection-eligible or not, in their order (a
\* row the sequence lists twice is returned twice);
\* right after a page fetch completes these are exactly the fetched rows that
\* arrived with selected = true.
C26_SelectedRowsReported ==
    [][ /\ (ev'.op = "getSelectedRows") =>
               LET r == ev'.arg[1]
               IN /\ Range(r) = {allRows[i] : i \in SelectedRows}
                  /\ Len(r) = Cardinality(SelectedRows)
                  /\ \A a \in 1..Len(r) : r[a] = allRows[NthSelected(a)]
        /\ (ev'.op = "getPageThen") =>
               /\ Len(allRows') = Len(ev'.arg[3])
               /\ Range(filterSelected(obj', allRows')) =
                      {allRows'[i] : i \in {j \in 1..Len(allRows') : ev'.arg[3][j]}} ]_vars

\* C26 witness: getSelectedRows has returned one row, which is selected and
\* selection-disabled, out of the row a page fetch brought.
C26_Witness ==
    /\ ev.op = "getSelectedRows" /\ Len(allRows) = 1
    /\ ev.arg[1] = allRows
    /\ obj[allRows[1]].isSelected /\ obj[allRows[1]].disableRowSelection

\* C27: the default width 100 is given at construction to every column that
\* lacks a width, so that after construction every column has its explicit
\* width or 100; a later replacement of the column sequence leaves every
\* incoming column with the width it came with, none if it came without.
C27_DefaultWidthAtConstruction ==
    [][ ColumnsReplaced =>
            \A i \in 1..Len(allColumns') :
                colObj'[allColumns'[i]].width = ReplacedArg[5][i] ]_vars
    /\ [](ev.op = "constructor" =>
              \A i \in 1..Len(allColumns) :
                  colObj[allColumns[i]].width =
                      IF ev.arg[1][i] # 0 THEN ev.arg[1][i] ELSE 100)

\* C27 witness: a replacement has brought in a column without width into a
\* grid constructed with widths; the column has no width.
C27_Witness ==
    /\ ev.op = "updateColumns" /\ Len(allColumns) = 2
    /\ ev.arg[5] = <<0, 0>>
    /\ colObj[allColumns[1]].width = 0 /\ colObj[allColumns[2]].width = 0

\* C28: updateWidth(columnId, width) sets the width of the column at
\* position columnId to the given width and leaves unchanged the width of
\* every other column, the visibility, sort spec and id of every column, the
\* column sequence, the rows, the selection and the pagination; called with a
\* column that carries no id, or an id that is no position of the sequence,
\* it changes nothing.
C28_UpdateWidthEffect ==
    [][ (ev'.op = "updateColumnWidth") =>
            /\ \A c \in ColObjs :
                   /\ colObj'[c].isVisible = colObj[c].isVisible
                   /\ colObj'[c].sort = colObj[c].sort
                   /\ colObj'[c].columnID = colObj[c].columnID
                   /\ colObj'[c].columnName = colObj[c].columnName
                   /\ colObj'[c].width =
                          IF /\ ev'.arg[1] + 1 \in 1..Len(allColumns)
                             /\ c = allColumns[ev'.arg[1] + 1]
                          THEN ev'.arg[2] ELSE colObj[c].width
            /\ UNCHANGED <<sortObj, allColumns, obj, allRows, selectAll, pagination>> ]_vars

\* C28 witness: after a replacement by two columns without width, a width
\* update for column id 1 has set the width of the second column to 50, the
\* first still having none.
C28_Witness ==
    /\ ev.op = "updateColumnWidth" /\ ev.arg = <<1, 50>>
    /\ Len(allColumns) = 2
    /\ colObj[allColumns[1]].width = 0 /\ colObj[allColumns[2]].width = 50
    /\ colObj[allColumns[2]].isVisible = "false"

\* C29: when two page requests overlapped and both page-loader calls have
\* completed, in either order, the rows are the data fetched for the page and
\* page size recorded in currentPage and pageSize: the completion that stored
\* the rows last, with no call left pending, was asked for that page.
C29_OverlappingPagesConsistent ==
    (ev.op = "getPageThen" /\ pendingPage = <<>>) =>
        /\ ev.arg[1] = pagination.currentPage
        /\ ev.arg[2] = pagination.pageSize

\* C30: the completion of a row's expansion-content load changes only the
\* content and the loading flag of that row: the row sequence of the grid and
\* every other field of every row stay as they were before the completion,
\* also when the row sequence was replaced while the load was pending.
C30_ExpandCompletionFrame ==
    [][ (ev'.op = "toggleExpandThen") =>
            /\ allRows' = allRows
            /\ \A i \in 1..Len(allRows) :
                   LET old == obj[allRows[i]]
                       new == obj'[allRows[i]]
                   IN [new EXCEPT !.content = old.content,
                                  !.expLoading = old.expLoading] = old ]_vars

\* C31: a column-sequence replacement or a width update made while a sort is
\* pending survives the completion of the sort: the completion leaves the
\* column sequence and every column's name, id, visibility and width as they
\* were just before it, and changes sort specs only.
C31_ReplacementSurvivesSort ==
    [][ (ev'.op = "handleSortThen") =>
            /\ allColumns' = allColumns
            /\ \A i \in 1..Len(allColumns) :
                   [colObj'[allColumns[i]] EXCEPT !.sort = colObj[allColumns[i]].sort]
                       = colObj[allColumns[i]] ]_vars

\* C32: if every callback the grid invokes resolves eventually, no request
\* leaves the loading flag set for ever: whenever a page request has left the
\* loading flag true, the grid reaches a state where it is false, or where
\* the owner has set it again by a showLoader call of its own.
C32_LoadingEventuallyCleared ==
    (/\ isLoading
     /\ \/ ev.op \in NavOps
        \/ ev.op = "handlePageChange" /\ Truthy(ParseInt(ev.arg)))
        ~> (~isLoading \/ ev.op = "showLoader")

\* C33: whenever pagination is active and totalItems > 0, after construction
\* and after each completed pagination operation,
\* 1 <= firstItem <= lastItem <= totalItems.
C33_ItemIndexesOrdered ==
    (props.hasPagination /\ pagination.totalItems > 0 /\ pendingPage = <<>>) =>
        /\ 1 <= pagination.firstItem
        /\ pagination.firstItem <= pagination.lastItem
        /\ pagination.lastItem <= pagination.totalItems

\* C34: no selection-disabled row is selected, after construction and after
\* any sequence of selectAll, selectSingle, external row replacement, sort
\* completion and page-fetch completion.
C34_DisabledNeverSelected ==
    \A i \in 1..Len(allRows) :
        obj[allRows[i]].disableRowSelection => ~obj[allRows[i]].isSelected

\* C35: a column whose stored order is ASCENDING or DESCENDING, as it is once
\* a sort on it has completed, never has the order NONE again: after a sort
\* activation, a sort completion, a width update or a replacement in which a
\* column of the same name declares a sort spec, the column of that name has
\* a sort spec whose order is ASCENDING or DESCENDING.
C35_OrderNeverBackToNone ==
    [][ \A i \in 1..Len(allColumns) :
            LET c == colObj[allColumns[i]]
            IN (c.sort # 0 /\ sortObj[c.sort].defaultSortOrder # NONE) =>
                   \A j \in 1..Len(allColumns') :
                       LET d == colObj'[allColumns'[j]]
                       IN (/\ d.columnName = c.columnName
                           /\ ColumnsReplaced => ReplacedArg[2][j]) =>
                              /\ d.sort # 0
                              /\ sortObj'[d.sort].defaultSortOrder \in {ASC, DESC} ]_vars

\* C35 witness: a sort has completed on a column A that came in by a
\* replacement (it has no width) and inherited its order: A is sorted
\* descending.
C35_Witness ==
    /\ ev.op = "handleSortThen"
    /\ \E k \in 1..Len(allColumns) :
           /\ colObj[allColumns[k]].columnName = "A" /\ colObj[allColumns[k]].width = 0
           /\ colObj[allColumns[k]].columnID = ev.arg[1]
           /\ colObj[allColumns[k]].sort # 0
           /\ sortObj[colObj[allColumns[k]].sort].defaultSortOrder = DESC
           /\ sortObj[colObj[allColumns[k]].sort].isSorted

(* ---------------------------- claims: tabs ---------------------------- *)

\* C36: selectedTabId is the id of the first tab after construction and the id
\* of the clicked tab after a click, it is always the id of a tab of the
\* list, and isOverflowTabSelected is true exactly when the last click was a
\* click in the overflow menu.
C36_SelectedTabInList ==
    /\ ev.op = "NewTabs" => selectedTabId = ev.arg[1][1].id
    /\ ev.op \in {"tabClick", "tabClicked"} => selectedTabId = ev.arg[1]
    /\ \E i \in 1..Len(tabs) : tabs[i].id = selectedTabId
    /\ isOverflowTabSelected <=> ev.op = "tabClicked"

\* The indexes of the tabs whose isSelected is true.
SelectedTabs(ts) == {j \in 1..Len(ts) : ts[j].isSelected = "true"}

\* C37: after a click in the overflow menu at most one tab has isSelected
\* true; a clicked tab that is not static is the only selected tab; after a
\* click on a static tab the tab that was selected before is still the active
\* one (it keeps its flag and selectedTabId is unchanged) and the static tab
\* has not become the selected tab: it is not flagged unless it was, and
\* selectedTabId does not name it unless it did.
C37_StaticClickKeepsActiveTab ==
    [][ \A i \in 1..Len(tabs) :
            clickOverflowItem(i) =>
                /\ Cardinality(SelectedTabs(tabs')) <= 1
                /\ tabs[i].tabType # STATIC => SelectedTabs(tabs') = {i}
                /\ tabs[i].tabType = STATIC =>
                       /\ lastActiveTabIndex(tabs) # 0 =>
                              SelectedTabs(tabs') = {lastActiveTabIndex(tabs)}
                       /\ selectedTabId' = selectedTabId
                       /\ i \notin SelectedTabs(tabs) => i \notin SelectedTabs(tabs')
                       /\ selectedTabId # tabs[i].id => selectedTabId' # tabs[i].id ]_vars

====
